---- MODULE Spec2Model ----
(***************************************************************************)
(* The partitioned geographic index of pkg/rtree (rtree.go, second         *)
(* version in the file: the longitude-banded GeoIndex) and its             *)
(* persistence (persistence.go).                                           *)
(*                                                                         *)
(* Units.  float64 coordinates are modelled on an integer grid whose unit  *)
(* is 0.0005 degree (2000 units per degree), so that the search tolerance  *)
(* of 0.01 degree is 20 units and every comparison the code makes between  *)
(* a coordinate, a rectangle edge and a partition bound is an exact        *)
(* integer comparison.  The degree radius of a radius query is irrational  *)
(* in general; it is tabulated as an odd number of units (the              *)
(* coordinates are even), which keeps every <, <= against it exact.        *)
(* One longitude, tiny, lies off the grid: it stands for a negative number *)
(* that float64 addition to any other non-zero value absorbs (Plus).       *)
(* Great-circle distances are tabulated in metres from the Haversine       *)
(* formula of Distance.  The partition counts 1, 2 and 4 divide 360        *)
(* exactly in float64, so their band arithmetic has no rounding; the       *)
(* rounding of the bands of 7 partitions is tabulated (Drift).             *)
(*                                                                         *)
(* Goroutines.  The calls of the first part of the module run one at a     *)
(* time.  The second part runs the calls of several goroutines on index 1  *)
(* step by step: mu is the sync.RWMutex of index 1 and proc the position   *)
(* and the local variables of each goroutine.                              *)
(***************************************************************************)
EXTENDS Integers, Sequences, FiniteSets, Bags, TLC

VARIABLES numCPU, partitionBounds, partitions, itemCount, file, ret, mu, proc

vars == <<numCPU, partitionBounds, partitions, itemCount, file, ret, mu, proc>>

(***************************************************************************)
(* Bounds of the model.                                                    *)
(***************************************************************************)
\* longest batch handed to IndexPoints
MaxBatch == 2
\* most points held by one index (guard of IndexPoints)
MaxHeld == 3
\* goroutines calling one index at the same time
MaxProcs == 2

(***************************************************************************)
(* Program constants.                                                      *)
(***************************************************************************)
\* tolerance = 0.01 degree
tolerance == 20
\* runtime.NumCPU() of the host
NumCPU == 4

\* one degree and a hundredth of a degree, in units
Deg(d) == 2000 * d
Centi(c) == 20 * c

\* The one coordinate off the grid: a negative number as close to zero as
\* -1e-17, smaller in magnitude than half the float64 spacing of every
\* other non-zero value of the model.  It compares with the values of the
\* grid as -1 does.
tiny == 0 - 1

\* float64 addition and subtraction: exact on the grid; tiny is absorbed
\* by every other non-zero operand (-1e-17 + 180.0 = 180.0)
Plus(x, y) ==
    IF x \in {tiny, 0 - tiny} /\ y \notin {0, tiny, 0 - tiny} THEN y
    ELSE IF y \in {tiny, 0 - tiny} /\ x \notin {0, tiny, 0 - tiny} THEN x
    ELSE x + y

Minus(x, y) == Plus(x, 0 - y)

(***************************************************************************)
(* models.Location, models.Point, models.BoundingBox.  A Location is the   *)
(* pair <<Lat, Lon>>; the nil *Location is the empty tuple.                *)
(***************************************************************************)
Nil == <<>>
Lat(loc) == loc[1]
Lon(loc) == loc[2]
Point(id, lat, lon) == [ID |-> id, Location |-> <<lat, lon>>]
BoundingBox(bl, tr) == [BottomLeft |-> bl, TopRight |-> tr]

\* The indexes of the model: two GeoIndex objects.
Indexes == {1, 2}

\* The points the callers hand in: in-range locations, and one point
\* without a location.
c60 == Point("c60", Deg(60), Deg(0))
near == Point("near", Deg(60), Centi(1))
west == Point("west", Deg(60), Deg(-3))
north == Point("north", Deg(62), Deg(0))
dl == Point("dl", Deg(0), Deg(180))
nl == [ID |-> "nl", Location |-> Nil]
\* a point whose fields all have the zero value of their type
origin == Point("", 0, 0)
\* a point just west of the meridian of longitude 0
justWest == Point("w", 0, tiny)

Universe == {c60, near, west, north, dl, nl}
\* the points handed to an index that is saved to a file
Saved == {origin, justWest, nl}

\* The batches handed to IndexPoints.  The order of a batch decides only
\* the order of insertion into a tree, which a tree (a bag) does not keep:
\* one order of each batch is enough.
Rank(p) ==
    CASE p = c60 -> 1 [] p = near -> 2 [] p = west -> 3
      [] p = north -> 4 [] p = dl -> 5 [] p = nl -> 6 [] p = origin -> 7
      [] p = justWest -> 8

BatchesOf(U) ==
    UNION {{b \in [1..n -> U] : \A i \in 1..(n - 1) : Rank(b[i]) <= Rank(b[i + 1])} :
            n \in 0..MaxBatch}

Batches == BatchesOf(Universe)
SavedBatches == BatchesOf(Saved)

\* Query arguments.
fullWorld == BoundingBox(<<Deg(-90), Deg(-180)>>, <<Deg(90), Deg(180)>>)
Boxes ==
    { fullWorld,
      \* a box with west, c60 and north on its corners and edges
      BoundingBox(<<Deg(60), Deg(-3)>>, <<Deg(62), Deg(0)>>),
      \* zero width and zero height: the single location of c60
      BoundingBox(<<Deg(60), Deg(0)>>, <<Deg(60), Deg(0)>>),
      \* zero width, positive height, through c60 and north
      BoundingBox(<<Deg(59), Deg(0)>>, <<Deg(63), Deg(0)>>),
      \* the eastern hemisphere from the band boundary at longitude 0
      BoundingBox(<<Deg(-90), Deg(0)>>, <<Deg(90), Deg(180)>>),
      \* inverted longitudes
      BoundingBox(<<Deg(59), Deg(3)>>, <<Deg(63), Deg(-1)>>) }

\* the boxes asked of a saved and of a loaded index: Boxes, and a box from
\* (-1, -1) to the location of justWest
SavedBoxes ==
    Boxes \cup {BoundingBox(<<Deg(-1), Deg(-1)>>, <<0, tiny>>)}

Centers == { <<Deg(60), Deg(0)>>, <<Deg(60), Deg(-1)>>, <<Deg(0), Centi(-17990)>> }

\* Radii in metres: 0, 20 km, 110.64 km, and the distance from
\* (60, 0) to (62, 0) as Distance computes it.
Radii == {0, 20000, 110640, 222390}

Ns == {1, 2}

(***************************************************************************)
(* Distance: the Haversine distance, in metres, tabulated over the         *)
(* centers and locations of the model.                                     *)
(***************************************************************************)
HaversineMetres ==
    <<120000, 0, 120000, 0>> :> 0 @@
    <<120000, 0, 120000, 20>> :> 556 @@
    <<120000, 0, 120000, -6000>> :> 166778 @@
    <<120000, 0, 124000, 0>> :> 222390 @@
    <<120000, 0, 0, 360000>> :> 13343391 @@
    <<120000, -2000, 120000, 0>> :> 55597 @@
    <<120000, -2000, 120000, 20>> :> 56153 @@
    <<120000, -2000, 120000, -6000>> :> 111191 @@
    <<120000, -2000, 124000, 0>> :> 228823 @@
    <<120000, -2000, 0, 360000>> :> 13342831 @@
    <<0, -359800, 120000, 0>> :> 13343386 @@
    <<0, -359800, 120000, 20>> :> 13343387 @@
    <<0, -359800, 120000, -6000>> :> 13338010 @@
    <<0, -359800, 124000, 0>> :> 13120996 @@
    <<0, -359800, 0, 360000>> :> 11119

Distance(lat1, lon1, lat2, lon2) == HaversineMetres[<<lat1, lon1, lat2, lon2>>]

\* deg := (radiusKm / earthRadius) * (180 / math.Pi), in units; a value
\* that is not a whole number of milli-degrees is the odd number between
\* its two neighbours.
RadiusToDeg(radius) ==
    CASE radius = 0 -> 0
      [] radius = 20000 -> 359
      [] radius = 110640 -> 1991
      [] radius = 222390 -> 4001

(***************************************************************************)
(* Bags of points: the contents of a tree, the result of a query.          *)
(***************************************************************************)
Range(s) == {s[k] : k \in DOMAIN s}

SeqToBag(s) == [x \in Range(s) |-> Cardinality({k \in DOMAIN s : s[k] = x})]

BagFilter(B, Keep(_)) == [x \in {y \in DOMAIN B : Keep(y)} |-> B[x]]

RECURSIVE BagSum(_, _)
\* the union, with multiplicities, of f[i] over the indices i in S
BagSum(f, S) ==
    IF S = {} THEN EmptyBag
    ELSE LET i == CHOOSE j \in S : TRUE
         IN f[i] (+) BagSum(f, S \ {i})

(***************************************************************************)
(* The spatial-tree primitive (rtreego), as the index uses it.  A tree is  *)
(* the bag of the points inserted; an item's rectangle is the one          *)
(* IndexPoints made for it.                                                *)
(***************************************************************************)
\* rtreego.Point.ToRect(tol): the rectangle [p - tol, p + tol]
ToRect(p, tol) ==
    [p |-> <<Minus(p[1], tol), Minus(p[2], tol)>>,
     q |-> <<Plus(p[1], tol), Plus(p[2], tol)>>]

\* rtreego.NewRect(p, lengths): an error unless every length is positive
NewRect(p, lengths) ==
    IF \E i \in 1..2 : lengths[i] <= 0
    THEN [err |-> TRUE, rect |-> ToRect(p, 0)]
    ELSE [err |-> FALSE,
          rect |-> [p |-> p, q |-> <<Plus(p[1], lengths[1]), Plus(p[2], lengths[2])>>]]

\* spatialPoint.Bounds
Bounds(item) == ToRect(item.Location, tolerance)

\* rectangles that only touch do not intersect
Intersect(r1, r2) ==
    \A i \in 1..2 : ~(r2.q[i] <= r1.p[i] \/ r1.q[i] <= r2.p[i])

\* Rtree.SearchIntersect
SearchIntersect(tree, bounds) ==
    BagFilter(tree, LAMBDA item : Intersect(Bounds(item), bounds))

NewTree == EmptyBag

(***************************************************************************)
(* NewGeoIndexWithWorkers                                                  *)
(***************************************************************************)
Workers(numPartitions) == IF numPartitions <= 0 THEN NumCPU ELSE numPartitions

LonRange(n) == Deg(360) \div n

\* The rounding of minLon + lonRange (rtree.go 336): by how many units of
\* the last place the float64 sum lies above the minLon of the next band,
\* -180.0 + float64(i+1)*lonRange.  Nothing for 1 to 6 partitions, whose
\* sums are exact or round alike; for 7 partitions, tabulated from float64.
\* One unit of the last place is written as one unit below the grid, as
\* tiny is.  (360/7 is not on the grid either: LonRange(7) is its value cut
\* to the grid unit, which moves no point of the model across a boundary.)
Drift(n, i) ==
    IF n # 7 THEN 0
    ELSE CASE i = 1 -> 1 [] i = 2 -> 4 [] i = 3 -> 0 - 4 [] i = 4 -> 0 - 1
           [] i = 5 -> 2 [] OTHER -> 0

NewPartitionBounds(n) ==
    [i \in 0..(n - 1) |->
        LET minLon == Deg(-180) + i * LonRange(n)
            maxLon == IF i = n - 1 THEN Deg(180)
                      ELSE minLon + LonRange(n) + Drift(n, i)
        IN BoundingBox(<<Deg(-90), minLon>>, <<Deg(90), maxLon>>)]

NewPartitions(n) == [i \in 0..(n - 1) |-> NewTree]

\* The partition counts asked for at construction.
Requested == {0, 1, 2, 4}

\* The record of the last call that returned on an index.
\* op: the call; box, center, radius, n: its arguments (n is the length of
\* the batch for IndexPoints); points, list, count, err: what it returned.
Ret(op, box, center, radius, n, points, list, count, err) ==
    [op |-> op, box |-> box, center |-> center,
     radius |-> radius, n |-> n, points |-> points, list |-> list,
     count |-> count, err |-> err]

NoBox == BoundingBox(<<0, 0>>, <<0, 0>>)
NoCenter == <<0, 0>>

RetOf(op) == Ret(op, NoBox, NoCenter, 0, 0, EmptyBag, <<>>, 0, FALSE)

\* what the file system does at the next SaveToFile: nothing special, or
\* os.Create fails, or Encode fails on the file just created
Faults == {"none", "create", "encode"}
\* the content of a file that gob cannot decode
Undecodable == [Broken |-> TRUE]
NoFile == [exists |-> FALSE, data |-> <<>>, fault |-> "none"]

\* The goroutines that call index 1 concurrently.
Procs == 1..MaxProcs

\* sync.RWMutex.  w: the goroutine that has taken the writer mutex in Lock
\* (0: none), which keeps new readers out from then on; held: it has the
\* write lock; r: the read locks held, one copy of a goroutine per RLock.
NoLock == [w |-> 0, held |-> FALSE, r |-> EmptyBag]

\* A goroutine: the public call it is in (op), the function of the index
\* it is executing (fn), its position there (pc), the arguments, and the
\* local variables: the partitions whose task has still to run (todo), the
\* items a task of IndexPoints has still to insert (left), totalInserted
\* (total), what the tasks of a query have read (seen), the points
\* SaveToFile got from QueryBox (found).
Idle ==
    [op |-> "idle", fn |-> "idle", pc |-> "idle",
     points |-> <<>>, box |-> NoBox, center |-> NoCenter, radius |-> 0, n |-> 0,
     todo |-> {}, left |-> <<>>, total |-> 0, seen |-> <<>>, found |-> EmptyBag,
     chan |-> {}, cap |-> 0, got |-> 0]

\* The indexes as their constructors leave them.
Constructed ==
    /\ partitionBounds = [g \in Indexes |-> NewPartitionBounds(numCPU[g])]
    /\ partitions = [g \in Indexes |-> NewPartitions(numCPU[g])]
    /\ itemCount = [g \in Indexes |-> 0]
    /\ file = NoFile
    /\ ret = [g \in Indexes |-> RetOf("New")]
    /\ mu = NoLock
    /\ proc = [p \in Procs |-> Idle]

\* Index 1 is made by NewGeoIndexWithWorkers, index 2 by NewGeoIndex.
Init ==
    /\ numCPU \in {f \in [Indexes -> {Workers(r) : r \in Requested}] : f[2] = NumCPU}
    /\ Constructed

(***************************************************************************)
(* IndexPoints                                                             *)
(***************************************************************************)
\* int(x / y) of Go: the quotient truncated toward zero
TruncDiv(x, y) == IF x >= 0 THEN x \div y ELSE -((-x) \div y)

\* the partition of a longitude (rtree.go 382-388)
PartitionIdx(n, lon) ==
    LET idx == TruncDiv(Plus(lon, Deg(180)), LonRange(n))
        capped == IF idx >= n THEN n - 1 ELSE idx
    IN IF capped < 0 THEN 0 ELSE capped

Located(points) == SelectSeq(points, LAMBDA p : p.Location # Nil)

\* partitionedPoints[i]: the located points of the batch that go to i
Bucket(n, points, i) ==
    SeqToBag(SelectSeq(Located(points),
                       LAMBDA p : PartitionIdx(n, Lon(p.Location)) = i))

\* InsertBuckets, were a point already held by its partition skipped
InsertBucketsOnce(n, parts, points) ==
    [i \in 0..(n - 1) |->
        parts[i] (+) BagFilter(Bucket(n, points, i),
                               LAMBDA item : ~BagIn(item, parts[i]))]

\* the partitions after the insertion tasks have run
\* InsertBuckets, were a point inserted into every partition whose band
\* reaches its longitude
InsertBucketsByBand(n, parts, points) ==
    LET b == NewPartitionBounds(n)
    IN [i \in 0..(n - 1) |->
          parts[i] (+) SeqToBag(SelectSeq(Located(points),
                          LAMBDA p : /\ Lon(b[i].BottomLeft) <= Lon(p.Location)
                                     /\ Lon(p.Location) <= Lon(b[i].TopRight)))]

InsertBuckets(n, parts, points) ==
    [i \in 0..(n - 1) |-> parts[i] (+) Bucket(n, points, i)]

RECURSIVE SumOver(_, _)
SumOver(f, S) ==
    IF S = {} THEN 0
    ELSE LET i == CHOOSE j \in S : TRUE
         IN f[i] + SumOver(f, S \ {i})

\* TotalInserted, were the points without a location counted too
TotalInsertedLen(n, points) == Len(points)

\* totalInserted: the sum of len(items) over the tasks spawned
TotalInserted(n, points) ==
    LET sizes == [i \in 0..(n - 1) |-> BagCardinality(Bucket(n, points, i))]
    IN SumOver(sizes, {i \in 0..(n - 1) : sizes[i] # 0})

\* the number of points an index holds
Held(g) == BagSum(partitions[g], DOMAIN partitions[g])

\* IndexPoints, were totalInserted added to itemCount
IndexPointsAccumulate(G, points) ==
    /\ \A g \in G : BagCardinality(Held(g)) + Len(Located(points)) <= MaxHeld
    /\ ret' = [g \in Indexes |->
          IF g \in G
          THEN [RetOf("IndexPoints") EXCEPT !.n = Len(points)]
          ELSE ret[g]]
    /\ partitions' = [g \in Indexes |->
          IF g \in G /\ Len(points) # 0
          THEN InsertBuckets(numCPU[g], partitions[g], points)
          ELSE partitions[g]]
    /\ itemCount' = [g \in Indexes |->
          IF g \in G /\ Len(points) # 0
          THEN itemCount[g] + TotalInserted(numCPU[g], points)
          ELSE itemCount[g]]
    /\ UNCHANGED <<mu, proc, numCPU, partitionBounds, file>>

IndexPoints(G, points) ==
    /\ \A g \in G : BagCardinality(Held(g)) + Len(Located(points)) <= MaxHeld
    /\ ret' = [g \in Indexes |->
          IF g \in G
          THEN [RetOf("IndexPoints") EXCEPT !.n = Len(points)]
          ELSE ret[g]]
    /\ partitions' = [g \in Indexes |->
          IF g \in G /\ Len(points) # 0
          THEN InsertBuckets(numCPU[g], partitions[g], points)
          ELSE partitions[g]]
    /\ itemCount' = [g \in Indexes |->
          IF g \in G /\ Len(points) # 0
          THEN TotalInserted(numCPU[g], points)
          ELSE itemCount[g]]
    /\ UNCHANGED <<mu, proc, numCPU, partitionBounds, file>>

(***************************************************************************)
(* Clear, Count                                                            *)
(***************************************************************************)
\* Clear, were the slice of partitions made anew with one slot per CPU
ClearResized(G) ==
    /\ partitions' = [g \in Indexes |->
          IF g \in G THEN [i \in 0..(NumCPU - 1) |-> NewTree] ELSE partitions[g]]
    /\ itemCount' = [g \in Indexes |-> IF g \in G THEN 0 ELSE itemCount[g]]
    /\ ret' = [g \in Indexes |-> IF g \in G THEN RetOf("Clear") ELSE ret[g]]
    /\ UNCHANGED <<mu, proc, numCPU, partitionBounds, file>>

\* Clear, were the loop over the partitions started at 1
ClearButFirst(G) ==
    /\ partitions' = [g \in Indexes |->
          IF g \in G
          THEN [i \in 0..(numCPU[g] - 1) |-> IF i = 0 THEN partitions[g][i] ELSE NewTree]
          ELSE partitions[g]]
    /\ itemCount' = [g \in Indexes |-> IF g \in G THEN 0 ELSE itemCount[g]]
    /\ ret' = [g \in Indexes |-> IF g \in G THEN RetOf("Clear") ELSE ret[g]]
    /\ UNCHANGED <<mu, proc, numCPU, partitionBounds, file>>

Clear(G) ==
    /\ partitions' = [g \in Indexes |->
          IF g \in G THEN [i \in 0..(numCPU[g] - 1) |-> NewTree] ELSE partitions[g]]
    /\ itemCount' = [g \in Indexes |-> IF g \in G THEN 0 ELSE itemCount[g]]
    /\ ret' = [g \in Indexes |-> IF g \in G THEN RetOf("Clear") ELSE ret[g]]
    /\ UNCHANGED <<mu, proc, numCPU, partitionBounds, file>>

Count(G) ==
    /\ ret' = [g \in Indexes |->
          IF g \in G THEN [RetOf("Count") EXCEPT !.count = itemCount[g]] ELSE ret[g]]
    /\ UNCHANGED <<mu, proc, numCPU, partitionBounds, partitions, itemCount, file>>

(***************************************************************************)
(* getRelevantPartitions, QueryBox                                         *)
(***************************************************************************)
\* getRelevantPartitions, were a band open at its lonMax (the last band
\* excepted)
getRelevantPartitionsHalfOpen(bounds, box) ==
    {i \in DOMAIN bounds :
        /\ \/ Lon(box.BottomLeft) < Lon(bounds[i].TopRight)
           \/ /\ i = Cardinality(DOMAIN bounds) - 1
              /\ Lon(box.BottomLeft) = Lon(bounds[i].TopRight)
        /\ Lon(box.TopRight) >= Lon(bounds[i].BottomLeft)}

getRelevantPartitions(bounds, box) ==
    {i \in DOMAIN bounds :
        /\ Lon(box.BottomLeft) <= Lon(bounds[i].TopRight)
        /\ Lon(box.TopRight) >= Lon(bounds[i].BottomLeft)}

\* what one task of QueryBox sends on resultsChan: nil, or its points
QueryBoxTask(tree, box) ==
    LET bounds == NewRect(box.BottomLeft,
                          <<Minus(Lat(box.TopRight), Lat(box.BottomLeft)),
                            Minus(Lon(box.TopRight), Lon(box.BottomLeft))>>)
    IN IF bounds.err
       THEN [nil |-> TRUE, points |-> EmptyBag]
       ELSE [nil |-> FALSE,
             points |-> BagFilter(SearchIntersect(tree, bounds.rect),
                LAMBDA item :
                    /\ Lat(item.Location) >= Lat(box.BottomLeft)
                    /\ Lat(item.Location) <= Lat(box.TopRight)
                    /\ Lon(item.Location) >= Lon(box.BottomLeft)
                    /\ Lon(item.Location) <= Lon(box.TopRight))]

\* allResults: the partial lists that are not nil, appended
Merge(results, relevant) ==
    BagSum([i \in relevant |-> results[i].points],
           {i \in relevant : ~results[i].nil})

\* what QueryBox returns from the trees of an index with these bounds
QueryBoxResult(bounds, trees, box) ==
    LET relevant == getRelevantPartitions(bounds, box)
        results == [i \in relevant |-> QueryBoxTask(trees[i], box)]
    IN Merge(results, relevant)

QueryBoxPoints(g, box) == QueryBoxResult(partitionBounds[g], partitions[g], box)

\* QueryBox, were the failure of a task's NewRect returned to the caller
QueryBoxSurfacing(G, box) ==
    /\ ret' = [g \in Indexes |->
          IF g \in G
          THEN [RetOf("QueryBox") EXCEPT
                  !.box = box,
                  !.points = QueryBoxPoints(g, box),
                  !.err = \E i \in getRelevantPartitions(partitionBounds[g], box) :
                              QueryBoxTask(partitions[g][i], box).nil]
          ELSE ret[g]]
    /\ UNCHANGED <<mu, proc, numCPU, partitionBounds, partitions, itemCount, file>>

QueryBox(G, box) ==
    /\ ret' = [g \in Indexes |->
          IF g \in G
          THEN [RetOf("QueryBox") EXCEPT !.box = box, !.points = QueryBoxPoints(g, box)]
          ELSE ret[g]]
    /\ UNCHANGED <<mu, proc, numCPU, partitionBounds, partitions, itemCount, file>>

(***************************************************************************)
(* QueryRadius                                                             *)
(***************************************************************************)
\* the degree box around the center, used for routing
RadiusBox(center, deg) ==
    BoundingBox(<<Minus(Lat(center), deg), Minus(Lon(center), deg)>>,
                <<Plus(Lat(center), deg), Plus(Lon(center), deg)>>)

\* what one task of QueryRadius sends on resultsChan: nil, or its points
QueryRadiusTask(tree, center, radiusKm, deg) ==
    LET bounds == NewRect(<<Minus(Lat(center), deg), Minus(Lon(center), deg)>>,
                          <<2 * deg, 2 * deg>>)
    IN IF bounds.err
       THEN [nil |-> TRUE, points |-> EmptyBag]
       ELSE [nil |-> FALSE,
             points |-> BagFilter(SearchIntersect(tree, bounds.rect),
                LAMBDA item :
                    Distance(Lat(center), Lon(center),
                             Lat(item.Location), Lon(item.Location)) <= radiusKm)]

\* what QueryRadius returns from the trees of an index with these bounds
QueryRadiusResult(bounds, trees, center, radiusKm) ==
    LET deg == RadiusToDeg(radiusKm)
        relevant == getRelevantPartitions(bounds, RadiusBox(center, deg))
        results == [i \in relevant |->
                        QueryRadiusTask(trees[i], center, radiusKm, deg)]
    IN Merge(results, relevant)

QueryRadiusPoints(g, center, radiusKm) ==
    QueryRadiusResult(partitionBounds[g], partitions[g], center, radiusKm)

QueryRadius(G, center, radiusKm) ==
    /\ ret' = [g \in Indexes |->
          IF g \in G
          THEN [RetOf("QueryRadius") EXCEPT !.center = center, !.radius = radiusKm,
                                            !.points = QueryRadiusPoints(g, center, radiusKm)]
          ELSE ret[g]]
    /\ UNCHANGED <<mu, proc, numCPU, partitionBounds, partitions, itemCount, file>>

(***************************************************************************)
(* NearestNeighbors                                                        *)
(***************************************************************************)
\* rtreego's metric: the squared Euclidean distance, in degree space, from
\* a point to a rectangle (0 inside it).  Every edge and every center is a
\* whole number of hundredths of a degree, and the sum is taken in that
\* unit.
minDist(p, r) ==
    LET d(i) == IF p[i] < r.p[i] THEN (r.p[i] - p[i]) \div 20
                ELSE IF p[i] > r.q[i] THEN (p[i] - r.q[i]) \div 20
                ELSE 0
    IN d(1) * d(1) + d(2) * d(2)

RECURSIVE NearestFirst(_, _)
\* the orders of the items of a tree (each a pair of a point and the
\* number of its copy) by minDist from p, nearest first, items at equal
\* distance in any order
NearestFirst(items, p) ==
    IF items = {} THEN {<<>>}
    ELSE LET nearest == {x \in items : \A y \in items :
                            minDist(p, Bounds(x[1])) <= minDist(p, Bounds(y[1]))}
         IN UNION {{<<x[1]>> \o rest : rest \in NearestFirst(items \ {x}, p)} :
                    x \in nearest}

\* Rtree.NearestNeighbors(k, p): the lists the primitive may return, the
\* min(k, size) items nearest to p, nearest first
KNearest(tree, k, p) ==
    LET items == UNION {{<<x, j>> : j \in 1..tree[x]} : x \in DOMAIN tree}
        m == IF Cardinality(items) < k THEN Cardinality(items) ELSE k
    IN {SubSeq(all, 1, m) : all \in NearestFirst(items, p)}

Swap(a, i, j) == [a EXCEPT ![i] = a[j], ![j] = a[i]]

RECURSIVE SortInner(_, _, _)
SortInner(a, i, j) ==
    IF j > Len(a) THEN a
    ELSE SortInner(IF a[i].distance > a[j].distance THEN Swap(a, i, j) ELSE a, i, j + 1)

RECURSIVE SortByDistance(_, _)
\* the exchange sort of rtree.go 591-597, from position i on
SortByDistance(a, i) ==
    IF i > Len(a) THEN a
    ELSE SortByDistance(SortInner(a, i, i + 1), i + 1)

RECURSIVE Concat(_, _)
\* allResults: the lists received, appended in the order of arrival
Concat(lists, order) ==
    IF order = <<>> THEN <<>>
    ELSE lists[Head(order)] \o Concat(lists, Tail(order))

RECURSIVE ArrivalOrders(_)
\* the orders in which the tasks of a query may deliver their results
ArrivalOrders(S) ==
    IF S = {} THEN {<<>>}
    ELSE UNION {{<<i>> \o rest : rest \in ArrivalOrders(S \ {i})} : i \in S}

\* what one task of NearestNeighbors sends: its candidates with their
\* great-circle distances
NearestTask(found, center) ==
    [k \in DOMAIN found |->
        [point |-> found[k],
         distance |-> Distance(Lat(center), Lon(center),
                               Lat(found[k].Location), Lon(found[k].Location))]]

RECURSIVE Sent(_, _)
\* what the tasks may send: for each partition of S, one of the lists
\* its task may send
Sent(lists, S) ==
    IF S = {} THEN {<<>>}
    ELSE LET i == CHOOSE j \in S : TRUE
         IN {(i :> first) @@ rest : first \in lists[i], rest \in Sent(lists, S \ {i})}

\* the first n points of the sorted candidates
TopN(allResults, n) ==
    LET resultCount == IF Len(allResults) < n THEN Len(allResults) ELSE n
    IN [i \in 1..resultCount |-> allResults[i].point]

\* NearestNeighborsResult, were only the partition of the center searched
NearestNeighborsResultRouted(trees, center, n) ==
    LET ids == {PartitionIdx(Cardinality(DOMAIN trees), Lon(center))}
        lists == [i \in ids |->
                    {NearestTask(found, center) :
                        found \in KNearest(trees[i], n * 2, center)}]
    IN {TopN(SortByDistance(Concat(sent, order), 1), n) :
            sent \in Sent(lists, ids), order \in ArrivalOrders(ids)}

\* NearestNeighborsResult, were each partition asked for n candidates
NearestNeighborsResultN(trees, center, n) ==
    LET ids == DOMAIN trees
        lists == [i \in ids |->
                    {NearestTask(found, center) :
                        found \in KNearest(trees[i], n, center)}]
    IN {TopN(SortByDistance(Concat(sent, order), 1), n) :
            sent \in Sent(lists, ids), order \in ArrivalOrders(ids)}

\* NearestNeighborsResult, were each partition asked for its share of n
NearestNeighborsResultShare(trees, center, n) ==
    LET ids == DOMAIN trees
        share == (n + Cardinality(ids) - 1) \div Cardinality(ids)
        lists == [i \in ids |->
                    {NearestTask(found, center) :
                        found \in KNearest(trees[i], share, center)}]
    IN {TopN(SortByDistance(Concat(sent, order), 1), n) :
            sent \in Sent(lists, ids), order \in ArrivalOrders(ids)}

\* the lists NearestNeighbors may return from these trees
NearestNeighborsResult(trees, center, n) ==
    LET ids == DOMAIN trees
        lists == [i \in ids |->
                    {NearestTask(found, center) :
                        found \in KNearest(trees[i], n * 2, center)}]
    IN {TopN(SortByDistance(Concat(sent, order), 1), n) :
            sent \in Sent(lists, ids), order \in ArrivalOrders(ids)}

NearestNeighborsLists(g, center, n) == NearestNeighborsResult(partitions[g], center, n)

NearestNeighbors(G, center, n) ==
    /\ \E l1 \in IF 1 \in G THEN NearestNeighborsLists(1, center, n) ELSE {<<>>},
          l2 \in IF 2 \in G THEN NearestNeighborsLists(2, center, n) ELSE {<<>>} :
          ret' = [g \in Indexes |->
                IF g \in G
                THEN [RetOf("NearestNeighbors") EXCEPT !.center = center, !.n = n,
                                                       !.list = IF g = 1 THEN l1 ELSE l2]
                ELSE ret[g]]
    /\ UNCHANGED <<mu, proc, numCPU, partitionBounds, partitions, itemCount, file>>

(***************************************************************************)
(* SaveToFile, LoadFromFile.  The file holds the gob encoding of an        *)
(* IndexData.  gob leaves out of a struct every field that has the zero    *)
(* value of its type ("" for a string, 0 for a number, an empty slice) and *)
(* every nil pointer; a non-nil pointer to a struct is sent even when all  *)
(* the fields of the struct are left out.  The decoder fills a fresh       *)
(* value, so a field left out comes back as the zero value.  An encoded    *)
(* struct is the function from the names of the fields sent to their       *)
(* encodings.                                                              *)
(***************************************************************************)
EncodeLocation(loc) ==
    [f \in {g \in {"Lat", "Lon"} : (IF g = "Lat" THEN Lat(loc) ELSE Lon(loc)) # 0} |->
        IF f = "Lat" THEN Lat(loc) ELSE Lon(loc)]

DecodeLocation(e) ==
    << IF "Lat" \in DOMAIN e THEN e["Lat"] ELSE 0,
       IF "Lon" \in DOMAIN e THEN e["Lon"] ELSE 0 >>

EncodePoint(p) ==
    [f \in {g \in {"ID", "Location"} :
                IF g = "ID" THEN p.ID # "" ELSE p.Location # Nil} |->
        IF f = "ID" THEN p.ID ELSE EncodeLocation(p.Location)]

DecodePoint(e) ==
    [ID |-> IF "ID" \in DOMAIN e THEN e["ID"] ELSE "",
     Location |-> IF "Location" \in DOMAIN e THEN DecodeLocation(e["Location"]) ELSE Nil]

\* IndexData{Points, Count}
EncodeIndexData(points, count) ==
    [f \in {g \in {"Points", "Count"} :
                IF g = "Points" THEN Len(points) # 0 ELSE count # 0} |->
        IF f = "Points" THEN [k \in DOMAIN points |-> EncodePoint(points[k])]
        ELSE count]

DecodeIndexData(e) ==
    [Points |-> IF "Points" \in DOMAIN e
                THEN [k \in DOMAIN e["Points"] |-> DecodePoint(e["Points"][k])]
                ELSE <<>>,
     Count |-> IF "Count" \in DOMAIN e THEN e["Count"] ELSE 0]

RECURSIVE Listed(_)
\* the slice QueryBox returns for a bag of points: its points in the order
\* of their ranks (IndexPoints, which reads the slice back, keeps no order)
Listed(B) ==
    IF B = EmptyBag THEN <<>>
    ELSE LET x == CHOOSE y \in DOMAIN B : \A z \in DOMAIN B : Rank(y) <= Rank(z)
         IN <<x>> \o Listed(B (-) SetToBag({x}))

\* SaveToFile, were the index cleared when the file cannot be written
SaveToFileClearing(g) ==
    /\ file' = CASE file.fault = "create" -> file
                 [] file.fault = "encode" ->
                      [file EXCEPT !.exists = TRUE, !.data = Undecodable]
                 [] OTHER ->
                      [file EXCEPT !.exists = TRUE,
                         !.data = EncodeIndexData(Listed(QueryBoxPoints(g, fullWorld)),
                                                  itemCount[g])]
    /\ ret' = [ret EXCEPT ![g] =
          [RetOf("SaveToFile") EXCEPT !.err = file.fault # "none"]]
    /\ partitions' = [partitions EXCEPT ![g] =
          IF file.fault # "none" THEN [i \in DOMAIN @ |-> NewTree] ELSE @]
    /\ UNCHANGED <<mu, proc, numCPU, partitionBounds, itemCount>>

\* os.Create leaves the file alone when it fails; when Encode fails the
\* file has been created and holds no complete envelope
SaveToFile(g) ==
    /\ file' = CASE file.fault = "create" -> file
                 [] file.fault = "encode" ->
                      [file EXCEPT !.exists = TRUE, !.data = Undecodable]
                 [] OTHER ->
                      [file EXCEPT !.exists = TRUE,
                         !.data = EncodeIndexData(Listed(QueryBoxPoints(g, fullWorld)),
                                                  itemCount[g])]
    /\ ret' = [ret EXCEPT ![g] =
          [RetOf("SaveToFile") EXCEPT !.err = file.fault # "none"]]
    /\ UNCHANGED <<mu, proc, numCPU, partitionBounds, partitions, itemCount>>

\* LoadFromFile, were the index not cleared before the points are indexed
LoadFromFileOnto(g) ==
    IF ~file.exists \/ file.data = Undecodable
    THEN /\ ret' = [ret EXCEPT ![g] = [RetOf("LoadFromFile") EXCEPT !.err = TRUE]]
         /\ UNCHANGED <<mu, proc, numCPU, partitionBounds, partitions, itemCount, file>>
    ELSE LET data == DecodeIndexData(file.data)
         IN /\ partitions' = [partitions EXCEPT ![g] =
                   IF Len(data.Points) # 0
                   THEN InsertBuckets(numCPU[g], partitions[g], data.Points)
                   ELSE partitions[g]]
            /\ itemCount' = [itemCount EXCEPT ![g] =
                   IF Len(data.Points) # 0
                   THEN TotalInserted(numCPU[g], data.Points)
                   ELSE 0]
            /\ ret' = [ret EXCEPT ![g] = RetOf("LoadFromFile")]
            /\ UNCHANGED <<mu, proc, numCPU, partitionBounds, file>>

LoadFromFile(g) ==
    IF ~file.exists \/ file.data = Undecodable
    THEN /\ ret' = [ret EXCEPT ![g] = [RetOf("LoadFromFile") EXCEPT !.err = TRUE]]
         /\ UNCHANGED <<mu, proc, numCPU, partitionBounds, partitions, itemCount, file>>
    ELSE LET data == DecodeIndexData(file.data)
             cleared == [i \in 0..(numCPU[g] - 1) |-> NewTree]
         IN /\ partitions' = [partitions EXCEPT ![g] =
                   IF Len(data.Points) # 0
                   THEN InsertBuckets(numCPU[g], cleared, data.Points)
                   ELSE cleared]
            /\ itemCount' = [itemCount EXCEPT ![g] =
                   IF Len(data.Points) # 0
                   THEN TotalInserted(numCPU[g], data.Points)
                   ELSE 0]
            /\ ret' = [ret EXCEPT ![g] = RetOf("LoadFromFile")]
            /\ UNCHANGED <<mu, proc, numCPU, partitionBounds, file>>

(***************************************************************************)
(* One index, used from one goroutine.                                     *)
(***************************************************************************)
Next ==
    \/ \E points \in Batches : IndexPoints({1}, points)
    \/ Clear({1})
    \/ Count({1})
    \/ \E box \in Boxes : QueryBox({1}, box)
    \/ \E center \in Centers, radiusKm \in Radii : QueryRadius({1}, center, radiusKm)
    \/ \E center \in Centers, n \in Ns : NearestNeighbors({1}, center, n)

Spec == Init /\ [][Next]_vars

(***************************************************************************)
(* One index, given only the calls that write or read itemCount.           *)
(***************************************************************************)
CountNext ==
    \/ \E points \in Batches : IndexPoints({1}, points)
    \/ Clear({1})
    \/ Count({1})

SpecCount == Init /\ [][CountNext]_vars

(***************************************************************************)
(* Index 1 is filled, cleared and saved to the file; index 2 loads the     *)
(* file.                                                                   *)
(***************************************************************************)
\* Index 1 is made by NewGeoIndexWithWorkers(1) or (2), index 2 by
\* NewGeoIndex.
PersistInit ==
    /\ numCPU \in {f \in [Indexes -> {Workers(r) : r \in {0, 1, 2}}] :
                      f[1] # NumCPU /\ f[2] = NumCPU}
    /\ Constructed

PersistNext ==
    \/ \E points \in SavedBatches : IndexPoints({1}, points)
    \/ Clear({1})
    \/ SaveToFile(1)
    \/ LoadFromFile(2)

SpecPersist == PersistInit /\ [][PersistNext]_vars

\* The same, index 1 being handed its points one at a time.
LoadBatches == {<<pt>> : pt \in Saved}

LoadNext ==
    \/ \E points \in LoadBatches : IndexPoints({1}, points)
    \/ Clear({1})
    \/ SaveToFile(1)
    \/ LoadFromFile(2)

SpecLoad == PersistInit /\ [][LoadNext]_vars

(***************************************************************************)
(* Index 1 is filled, saved and loaded while the file system may refuse to *)
(* create the file or to take the whole envelope.                          *)
(***************************************************************************)
\* the file system changes its mind
Fault(f) ==
    /\ file.fault # f
    /\ file' = [file EXCEPT !.fault = f]
    /\ UNCHANGED <<mu, proc, numCPU, partitionBounds, partitions, itemCount, ret>>

FaultBatches == {<<origin>>, <<justWest, nl>>}

FaultNext ==
    \/ \E points \in FaultBatches : IndexPoints({1}, points)
    \/ SaveToFile(1)
    \/ LoadFromFile(1)
    \/ \E f \in Faults : Fault(f)

SpecFault == PersistInit /\ [][FaultNext]_vars

(***************************************************************************)
(* Two indexes, each made by NewGeoIndexWithWorkers, handed the same       *)
(* calls in the same order.                                                *)
(***************************************************************************)
TwinInit ==
    /\ numCPU \in [Indexes -> {Workers(r) : r \in Requested}]
    /\ Constructed

TwinNext ==
    \/ \E points \in Batches : IndexPoints(Indexes, points)
    \/ Clear(Indexes)
    \/ Count(Indexes)
    \/ \E box \in Boxes : QueryBox(Indexes, box)
    \/ \E center \in Centers, radiusKm \in Radii : QueryRadius(Indexes, center, radiusKm)

SpecTwin == TwinInit /\ [][TwinNext]_vars

(***************************************************************************)
(* One index made by NewGeoIndexWithWorkers with 1, 2, 4 or 7 partitions,  *)
(* handed points along the equator.                                        *)
(***************************************************************************)
BandCounts == {1, 2, 4, 7}

farWest == Point("fw", 0, Deg(-170))
east == Point("e", 0, Deg(10))
BandPoints == {farWest, east, dl, origin, justWest}
BandBatches == {<<p>> : p \in BandPoints}

BandInit ==
    /\ numCPU \in {f \in [Indexes -> BandCounts \cup {NumCPU}] :
                      f[1] \in BandCounts /\ f[2] = NumCPU}
    /\ Constructed

BandNext ==
    \/ \E points \in BandBatches : IndexPoints({1}, points)
    \/ Clear({1})

SpecBands == BandInit /\ [][BandNext]_vars

(***************************************************************************)
(* One index, used from one goroutine, saved to a file and loaded from it. *)
(***************************************************************************)
FrameBatches == {<<pt>> : pt \in {c60, west, nl}} \cup {<<c60, west>>, <<c60, nl>>}
FrameCenter == <<Deg(60), Deg(0)>>

FrameNext ==
    \/ \E points \in FrameBatches : IndexPoints({1}, points)
    \/ Clear({1})
    \/ Count({1})
    \/ \E box \in Boxes : QueryBox({1}, box)
    \/ QueryRadius({1}, FrameCenter, 222390)
    \/ NearestNeighbors({1}, FrameCenter, 1)
    \/ SaveToFile(1)
    \/ LoadFromFile(1)

SpecFrame == Init /\ [][FrameNext]_vars

(***************************************************************************)
(* Index 1 with 1, 2 or 4 partitions, filled one point at a time and asked *)
(* for nearest neighbours.                                                 *)
(***************************************************************************)
NearestBatches == {<<pt>> : pt \in {c60, north, dl, nl}}

NearestNext ==
    \/ \E points \in NearestBatches : IndexPoints({1}, points)
    \/ Clear({1})
    \/ \E center \in Centers, n \in Ns : NearestNeighbors({1}, center, n)

SpecNearest == Init /\ [][NearestNext]_vars

(***************************************************************************)
(* Index 1 with 1, 2 or 4 partitions, filled one point at a time and asked *)
(* for the points of a box and of a circle, the boxes and the circles for  *)
(* which no rectangle can be made included.                                *)
(***************************************************************************)
AreaNext ==
    \/ \E points \in NearestBatches : IndexPoints({1}, points)
    \/ Clear({1})
    \/ \E box \in Boxes : QueryBox({1}, box)
    \/ \E radiusKm \in Radii : QueryRadius({1}, FrameCenter, radiusKm)

SpecArea == Init /\ [][AreaNext]_vars

(***************************************************************************)
(* Goroutines on index 1.  Each action below is one step of one goroutine: *)
(* a call, a lock operation, one task's access to a partition, a return.   *)
(* A deferred Unlock or RUnlock runs with the return of its function.      *)
(***************************************************************************)
\* the variables of index 1 that a step of the mutex leaves alone
Index == <<numCPU, partitionBounds, partitions, itemCount, file>>

\* the points of the calls in flight
RECURSIVE InFlight(_)
InFlight(S) ==
    IF S = {} THEN 0
    ELSE LET p == CHOOSE q \in S : TRUE
         IN Len(Located(proc[p].points)) + InFlight(S \ {p})

\* partitionedPoints (rtree.go 361-391), as the sequences the tasks range over
Partitioned(n, points) ==
    [i \in 0..(n - 1) |->
        SelectSeq(Located(points), LAMBDA pt : PartitionIdx(n, Lon(pt.Location)) = i)]

\* a goroutine that has entered IndexPoints with a batch that is not empty
EnterIndexPoints(op, points) ==
    LET items == Partitioned(numCPU[1], points)
    IN [Idle EXCEPT !.op = op, !.fn = "IndexPoints", !.pc = "Lock",
                    !.points = points, !.left = items,
                    !.todo = {i \in DOMAIN items : items[i] # <<>>}]

\* a goroutine that has entered Clear
EnterClear(op, points) ==
    [Idle EXCEPT !.op = op, !.fn = "Clear", !.pc = "Lock", !.points = points,
                 !.todo = DOMAIN partitions[1]]

\* g.mu.Lock(), first half: take the writer mutex; from now on RLock waits
Lock(p) ==
    /\ proc[p].pc = "Lock"
    /\ mu.w = 0
    /\ mu' = [mu EXCEPT !.w = p]
    /\ proc' = [proc EXCEPT ![p].pc = "LockWait"]
    /\ UNCHANGED <<Index, ret>>

\* LockWait, were the readers not waited for
LockWaitAnyway(p) ==
    /\ proc[p].pc = "LockWait"
    /\ mu' = [mu EXCEPT !.held = TRUE]
    /\ proc' = [proc EXCEPT ![p].pc = "Locked"]
    /\ UNCHANGED <<Index, ret>>

\* g.mu.Lock(), second half: wait until the readers have left
LockWait(p) ==
    /\ proc[p].pc = "LockWait"
    /\ mu.r = EmptyBag
    /\ mu' = [mu EXCEPT !.held = TRUE]
    /\ proc' = [proc EXCEPT ![p].pc = "Locked"]
    /\ UNCHANGED <<Index, ret>>

\* the partitions whose tasks the query of goroutine p starts
Relevant(p) ==
    CASE proc[p].fn = "QueryBox" ->
           getRelevantPartitions(partitionBounds[1], proc[p].box)
      [] proc[p].fn = "QueryRadius" ->
           getRelevantPartitions(partitionBounds[1],
              RadiusBox(proc[p].center, RadiusToDeg(proc[p].radius)))
      [] proc[p].fn = "NearestNeighbors" -> DOMAIN partitions[1]
      [] OTHER -> {}

\* the capacity of resultsChan, which is also the number of results the
\* query receives before it returns
Capacity(p) ==
    IF proc[p].fn = "NearestNeighbors" THEN numCPU[1] ELSE Cardinality(Relevant(p))

\* RLock, were a reader to wait for the other readers too
RLockAlone(p) ==
    /\ proc[p].pc = "RLock"
    /\ mu.w = 0
    /\ mu.r = EmptyBag
    /\ mu' = [mu EXCEPT !.r = @ (+) SetToBag({p})]
    /\ proc' = [proc EXCEPT
          ![p].pc = IF proc[p].fn = "SaveToFile" THEN "RUnlock" ELSE "Tasks",
          ![p].todo = Relevant(p),
          ![p].cap = Capacity(p)]
    /\ UNCHANGED <<Index, ret>>

\* RLock, were a pending or active writer not waited for
RLockAnyway(p) ==
    /\ proc[p].pc = "RLock"
    /\ mu' = [mu EXCEPT !.r = @ (+) SetToBag({p})]
    /\ proc' = [proc EXCEPT
          ![p].pc = IF proc[p].fn = "SaveToFile" THEN "RUnlock" ELSE "Tasks",
          ![p].todo = Relevant(p),
          ![p].cap = Capacity(p)]
    /\ UNCHANGED <<Index, ret>>

\* g.mu.RLock(): waits while a writer has announced itself.  A query then
\* picks the partitions to search and makes the channel of the results.
RLock(p) ==
    /\ proc[p].pc = "RLock"
    /\ mu.w = 0
    /\ mu' = [mu EXCEPT !.r = @ (+) SetToBag({p})]
    /\ proc' = [proc EXCEPT
          ![p].pc = IF proc[p].fn = "SaveToFile" THEN "RUnlock" ELSE "Tasks",
          ![p].todo = Relevant(p),
          ![p].cap = Capacity(p)]
    /\ UNCHANGED <<Index, ret>>

(***************************************************************************)
(* IndexPoints, step by step                                               *)
(***************************************************************************)
\* CallIndexPoints, were an empty batch not returned at once
CallIndexPointsAlways(p, points) ==
    /\ proc[p].pc = "idle"
    /\ \/ Located(points) = <<>>
       \/ BagCardinality(Held(1)) + InFlight(Procs) + Len(Located(points)) <= MaxHeld
    /\ proc' = [proc EXCEPT ![p] = EnterIndexPoints("IndexPoints", points)]
    /\ UNCHANGED <<Index, mu, ret>>

CallIndexPoints(p, points) ==
    /\ proc[p].pc = "idle"
    /\ \/ Located(points) = <<>>
       \/ BagCardinality(Held(1)) + InFlight(Procs) + Len(Located(points)) <= MaxHeld
    /\ IF Len(points) = 0
       THEN /\ ret' = [ret EXCEPT ![1] = RetOf("IndexPoints")]
            /\ UNCHANGED proc
       ELSE /\ proc' = [proc EXCEPT ![p] = EnterIndexPoints("IndexPoints", points)]
            /\ UNCHANGED ret
    /\ UNCHANGED <<Index, mu>>

\* Insert, were every item put into partition 0
InsertIntoFirst(p, i) ==
    /\ proc[p].pc = "Locked" /\ proc[p].fn = "IndexPoints"
    /\ i \in proc[p].todo
    /\ LET items == proc[p].left[i]
           last == Len(items) = 1
       IN /\ partitions' = [partitions EXCEPT ![1][0] = @ (+) SetToBag({Head(items)})]
          /\ proc' = [proc EXCEPT
                ![p].left[i] = Tail(items),
                ![p].todo = IF last THEN @ \ {i} ELSE @,
                ![p].total = IF last
                             THEN @ + BagCardinality(Bucket(numCPU[1], proc[p].points, i))
                             ELSE @]
    /\ UNCHANGED <<numCPU, partitionBounds, itemCount, file, ret, mu>>

\* Insert, were the count of a task added to the count of the index when
\* the task ends
InsertCounting(p, i) ==
    /\ proc[p].pc = "Locked" /\ proc[p].fn = "IndexPoints"
    /\ i \in proc[p].todo
    /\ LET items == proc[p].left[i]
           last == Len(items) = 1
           n == BagCardinality(Bucket(numCPU[1], proc[p].points, i))
       IN /\ partitions' = [partitions EXCEPT ![1][i] = @ (+) SetToBag({Head(items)})]
          /\ itemCount' = [itemCount EXCEPT ![1] = IF last THEN @ + n ELSE @]
          /\ proc' = [proc EXCEPT
                ![p].left[i] = Tail(items),
                ![p].todo = IF last THEN @ \ {i} ELSE @,
                ![p].total = IF last THEN @ + n ELSE @]
    /\ UNCHANGED <<numCPU, partitionBounds, file, ret, mu>>

\* one iteration of the loop of the task of partition i (rtree.go 410-413)
Insert(p, i) ==
    /\ proc[p].pc = "Locked" /\ proc[p].fn = "IndexPoints"
    /\ i \in proc[p].todo
    /\ LET items == proc[p].left[i]
           last == Len(items) = 1
       IN /\ partitions' = [partitions EXCEPT ![1][i] = @ (+) SetToBag({Head(items)})]
          /\ proc' = [proc EXCEPT
                ![p].left[i] = Tail(items),
                ![p].todo = IF last THEN @ \ {i} ELSE @,
                ![p].total = IF last
                             THEN @ + BagCardinality(Bucket(numCPU[1], proc[p].points, i))
                             ELSE @]
    /\ UNCHANGED <<numCPU, partitionBounds, itemCount, file, ret, mu>>

\* wg.Wait() is over: the count is stored and the function returns
IndexPointsReturn(p) ==
    /\ proc[p].pc = "Locked" /\ proc[p].fn = "IndexPoints"
    /\ proc[p].todo = {}
    /\ itemCount' = [itemCount EXCEPT ![1] = proc[p].total]
    /\ mu' = [mu EXCEPT !.w = 0, !.held = FALSE]
    /\ ret' = [ret EXCEPT ![1] =
          IF proc[p].op = "IndexPoints"
          THEN [RetOf("IndexPoints") EXCEPT !.n = Len(proc[p].points)]
          ELSE RetOf(proc[p].op)]
    /\ proc' = [proc EXCEPT ![p] = Idle]
    /\ UNCHANGED <<numCPU, partitionBounds, partitions, file>>

(***************************************************************************)
(* Clear, step by step                                                     *)
(***************************************************************************)
CallClear(p) ==
    /\ proc[p].pc = "idle"
    /\ proc' = [proc EXCEPT ![p] = EnterClear("Clear", <<>>)]
    /\ UNCHANGED <<Index, ret, mu>>

\* one iteration of the loop of rtree.go 623-625
ClearPartition(p) ==
    /\ proc[p].pc = "Locked" /\ proc[p].fn = "Clear"
    /\ proc[p].todo # {}
    /\ LET i == CHOOSE j \in proc[p].todo : \A k \in proc[p].todo : j <= k
       IN /\ partitions' = [partitions EXCEPT ![1][i] = NewTree]
          /\ proc' = [proc EXCEPT ![p].todo = @ \ {i}]
    /\ UNCHANGED <<numCPU, partitionBounds, itemCount, file, ret, mu>>

\* ClearReturn, were LoadFromFile to keep the lock from Clear to IndexPoints
ClearReturnLocked(p) ==
    /\ proc[p].pc = "Locked" /\ proc[p].fn = "Clear"
    /\ proc[p].todo = {}
    /\ itemCount' = [itemCount EXCEPT ![1] = 0]
    /\ IF proc[p].op = "LoadFromFile" /\ Len(proc[p].points) # 0
       THEN /\ proc' = [proc EXCEPT ![p] =
                  [EnterIndexPoints("LoadFromFile", proc[p].points)
                      EXCEPT !.pc = "Locked"]]
            /\ UNCHANGED <<ret, mu>>
       ELSE /\ proc' = [proc EXCEPT ![p] = Idle]
            /\ mu' = [mu EXCEPT !.w = 0, !.held = FALSE]
            /\ ret' = [ret EXCEPT ![1] = RetOf(proc[p].op)]
    /\ UNCHANGED <<numCPU, partitionBounds, partitions, file>>

\* the count is reset and Clear returns; LoadFromFile goes on to call
\* IndexPoints with the points it decoded
ClearReturn(p) ==
    /\ proc[p].pc = "Locked" /\ proc[p].fn = "Clear"
    /\ proc[p].todo = {}
    /\ itemCount' = [itemCount EXCEPT ![1] = 0]
    /\ mu' = [mu EXCEPT !.w = 0, !.held = FALSE]
    /\ IF proc[p].op = "LoadFromFile" /\ Len(proc[p].points) # 0
       THEN /\ proc' = [proc EXCEPT ![p] =
                  EnterIndexPoints("LoadFromFile", proc[p].points)]
            /\ UNCHANGED ret
       ELSE /\ proc' = [proc EXCEPT ![p] = Idle]
            /\ ret' = [ret EXCEPT ![1] = RetOf(proc[p].op)]
    /\ UNCHANGED <<numCPU, partitionBounds, partitions, file>>

(***************************************************************************)
(* The queries, step by step                                               *)
(***************************************************************************)
CallQueryBox(p, box) ==
    /\ proc[p].pc = "idle"
    /\ proc' = [proc EXCEPT ![p] =
          [Idle EXCEPT !.op = "QueryBox", !.fn = "QueryBox", !.pc = "RLock",
                       !.box = box]]
    /\ UNCHANGED <<Index, ret, mu>>

CallQueryRadius(p, center, radiusKm) ==
    /\ proc[p].pc = "idle"
    /\ proc' = [proc EXCEPT ![p] =
          [Idle EXCEPT !.op = "QueryRadius", !.fn = "QueryRadius", !.pc = "RLock",
                       !.center = center, !.radius = radiusKm]]
    /\ UNCHANGED <<Index, ret, mu>>

CallNearestNeighbors(p, center, n) ==
    /\ proc[p].pc = "idle"
    /\ proc' = [proc EXCEPT ![p] =
          [Idle EXCEPT !.op = "NearestNeighbors", !.fn = "NearestNeighbors",
                       !.pc = "RLock", !.center = center, !.n = n]]
    /\ UNCHANGED <<Index, ret, mu>>

\* the task of partition i searches its tree and sends its result, which
\* the query receives
Task(p, i) ==
    /\ proc[p].pc = "Tasks"
    /\ i \in proc[p].todo
    /\ proc' = [proc EXCEPT ![p].todo = @ \ {i},
                            ![p].seen = (i :> partitions[1][i]) @@ @,
                            ![p].got = @ + 1]
    /\ UNCHANGED <<Index, ret, mu>>

\* Send, were nothing sent when the rectangle cannot be made
SendUnlessFailed(p, i) ==
    /\ proc[p].pc = "Tasks"
    /\ i \in proc[p].todo
    /\ Cardinality(proc[p].chan) < proc[p].cap
    /\ proc' = [proc EXCEPT
          ![p].todo = @ \ {i},
          ![p].seen = (i :> partitions[1][i]) @@ @,
          ![p].chan = IF /\ proc[p].fn = "QueryBox"
                         /\ QueryBoxTask(partitions[1][i], proc[p].box).nil
                      THEN @ ELSE @ \cup {i}]
    /\ UNCHANGED <<Index, ret, mu>>

\* the task of partition i searches its tree, or fails to make the
\* rectangle, and sends its one result on the channel, if there is room
Send(p, i) ==
    /\ proc[p].pc = "Tasks"
    /\ i \in proc[p].todo
    /\ Cardinality(proc[p].chan) < proc[p].cap
    /\ proc' = [proc EXCEPT ![p].todo = @ \ {i},
                            ![p].seen = (i :> partitions[1][i]) @@ @,
                            ![p].chan = @ \cup {i}]
    /\ UNCHANGED <<Index, ret, mu>>

\* the query receives one of the results on the channel
Receive(p) ==
    /\ proc[p].pc = "Tasks"
    /\ \E i \in proc[p].chan :
          proc' = [proc EXCEPT ![p].chan = @ \ {i}, ![p].got = @ + 1]
    /\ UNCHANGED <<Index, ret, mu>>

\* QueryBoxReturn, were the results of the tasks not waited for
QueryBoxReturnEarly(p) ==
    /\ proc[p].pc = "Tasks" /\ proc[p].fn = "QueryBox"
    /\ mu' = [mu EXCEPT !.r = @ (-) SetToBag({p})]
    /\ LET points == QueryBoxResult(partitionBounds[1],
                         proc[p].seen @@ [i \in DOMAIN partitions[1] |-> EmptyBag],
                         proc[p].box)
       IN IF proc[p].op = "SaveToFile"
          THEN /\ proc' = [proc EXCEPT ![p] =
                     [Idle EXCEPT !.op = "SaveToFile", !.fn = "SaveToFile",
                                  !.pc = "Encode", !.found = points]]
               /\ UNCHANGED ret
          ELSE /\ proc' = [proc EXCEPT ![p] = Idle]
               /\ ret' = [ret EXCEPT ![1] =
                     [RetOf("QueryBox") EXCEPT !.box = proc[p].box, !.points = points]]
    /\ UNCHANGED Index

\* every result has been received: QueryBox merges and returns.  Called by
\* SaveToFile, it hands the points to SaveToFile.
QueryBoxReturn(p) ==
    /\ proc[p].pc = "Tasks" /\ proc[p].fn = "QueryBox"
    /\ proc[p].got = proc[p].cap
    /\ mu' = [mu EXCEPT !.r = @ (-) SetToBag({p})]
    /\ LET points == QueryBoxResult(partitionBounds[1], proc[p].seen, proc[p].box)
       IN IF proc[p].op = "SaveToFile"
          THEN /\ proc' = [proc EXCEPT ![p] =
                     [Idle EXCEPT !.op = "SaveToFile", !.fn = "SaveToFile",
                                  !.pc = "Encode", !.found = points]]
               /\ UNCHANGED ret
          ELSE /\ proc' = [proc EXCEPT ![p] = Idle]
               /\ ret' = [ret EXCEPT ![1] =
                     [RetOf("QueryBox") EXCEPT !.box = proc[p].box, !.points = points]]
    /\ UNCHANGED Index

\* QueryRadiusReturn, were the number of points found stored as the count
QueryRadiusReturnStoring(p) ==
    /\ proc[p].pc = "Tasks" /\ proc[p].fn = "QueryRadius"
    /\ proc[p].got = proc[p].cap
    /\ mu' = [mu EXCEPT !.r = @ (-) SetToBag({p})]
    /\ proc' = [proc EXCEPT ![p] = Idle]
    /\ ret' = [ret EXCEPT ![1] =
          [RetOf("QueryRadius") EXCEPT
              !.center = proc[p].center, !.radius = proc[p].radius,
              !.points = QueryRadiusResult(partitionBounds[1], proc[p].seen,
                                           proc[p].center, proc[p].radius)]]
    /\ itemCount' = [itemCount EXCEPT ![1] = BagCardinality(ret'[1].points)]
    /\ UNCHANGED <<numCPU, partitionBounds, partitions, file>>

QueryRadiusReturn(p) ==
    /\ proc[p].pc = "Tasks" /\ proc[p].fn = "QueryRadius"
    /\ proc[p].got = proc[p].cap
    /\ mu' = [mu EXCEPT !.r = @ (-) SetToBag({p})]
    /\ proc' = [proc EXCEPT ![p] = Idle]
    /\ ret' = [ret EXCEPT ![1] =
          [RetOf("QueryRadius") EXCEPT
              !.center = proc[p].center, !.radius = proc[p].radius,
              !.points = QueryRadiusResult(partitionBounds[1], proc[p].seen,
                                           proc[p].center, proc[p].radius)]]
    /\ UNCHANGED Index

NearestNeighborsReturn(p) ==
    /\ proc[p].pc = "Tasks" /\ proc[p].fn = "NearestNeighbors"
    /\ proc[p].got = proc[p].cap
    /\ mu' = [mu EXCEPT !.r = @ (-) SetToBag({p})]
    /\ proc' = [proc EXCEPT ![p] = Idle]
    /\ \E list \in NearestNeighborsResult(proc[p].seen, proc[p].center, proc[p].n) :
          ret' = [ret EXCEPT ![1] =
              [RetOf("NearestNeighbors") EXCEPT
                  !.center = proc[p].center, !.n = proc[p].n, !.list = list]]
    /\ UNCHANGED Index

(***************************************************************************)
(* SaveToFile and LoadFromFile, step by step                               *)
(***************************************************************************)
\* SaveToFile starts with g.mu.RLock() (persistence.go 19)
CallSaveToFile(p) ==
    /\ proc[p].pc = "idle"
    /\ proc' = [proc EXCEPT ![p] =
          [Idle EXCEPT !.op = "SaveToFile", !.fn = "SaveToFile", !.pc = "RLock"]]
    /\ UNCHANGED <<Index, ret, mu>>

\* RUnlock, were the read lock kept while QueryBox is called
RUnlockLater(p) ==
    /\ proc[p].pc = "RUnlock"
    /\ proc' = [proc EXCEPT ![p].fn = "QueryBox", ![p].pc = "RLock",
                            ![p].box = fullWorld]
    /\ UNCHANGED <<Index, ret, mu>>

\* g.mu.RUnlock() (persistence.go 23), then the call of QueryBox
RUnlock(p) ==
    /\ proc[p].pc = "RUnlock"
    /\ mu' = [mu EXCEPT !.r = @ (-) SetToBag({p})]
    /\ proc' = [proc EXCEPT ![p].fn = "QueryBox", ![p].pc = "RLock",
                            ![p].box = fullWorld]
    /\ UNCHANGED <<Index, ret>>

\* the count is read and the envelope written (persistence.go 35-49)
Encode(p) ==
    /\ proc[p].pc = "Encode"
    /\ file' = CASE file.fault = "create" -> file
                 [] file.fault = "encode" ->
                      [file EXCEPT !.exists = TRUE, !.data = Undecodable]
                 [] OTHER ->
                      [file EXCEPT !.exists = TRUE,
                         !.data = EncodeIndexData(Listed(proc[p].found), itemCount[1])]
    /\ ret' = [ret EXCEPT ![1] =
          [RetOf("SaveToFile") EXCEPT !.err = file.fault # "none"]]
    /\ proc' = [proc EXCEPT ![p] = Idle]
    /\ UNCHANGED <<numCPU, partitionBounds, partitions, itemCount, mu>>

\* the file is opened and decoded (persistence.go 56-66), then Clear is
\* called
CallLoadFromFile(p) ==
    /\ proc[p].pc = "idle"
    /\ IF ~file.exists \/ file.data = Undecodable
       THEN /\ ret' = [ret EXCEPT ![1] = [RetOf("LoadFromFile") EXCEPT !.err = TRUE]]
            /\ UNCHANGED proc
       ELSE LET data == DecodeIndexData(file.data)
            IN /\ InFlight(Procs) + Len(Located(data.Points)) <= MaxHeld
               /\ proc' = [proc EXCEPT ![p] = EnterClear("LoadFromFile", data.Points)]
               /\ UNCHANGED ret
    /\ UNCHANGED <<Index, mu>>

(***************************************************************************)
(* Index 1 with two partitions, called by the goroutines.                  *)
(***************************************************************************)
ConcBatches == {<<west>>, <<c60, west>>}
FileBatches == {<<c60, west, north>>}
ConcCenter == <<Deg(60), Deg(0)>>

ConcInit ==
    /\ numCPU = [g \in Indexes |-> IF g = 1 THEN Workers(2) ELSE NumCPU]
    /\ Constructed

\* the steps of IndexPoints and of Clear after the call
Write(p) ==
    \/ Lock(p)
    \/ LockWait(p)
    \/ \E i \in DOMAIN partitions[1] : Insert(p, i)
    \/ IndexPointsReturn(p)
    \/ ClearPartition(p)
    \/ ClearReturn(p)

\* IndexPoints, Clear and the three queries
ConcNext ==
    \E p \in Procs :
        \/ \E points \in ConcBatches : CallIndexPoints(p, points)
        \/ CallClear(p)
        \/ CallQueryBox(p, fullWorld)
        \/ CallQueryRadius(p, ConcCenter, 222390)
        \/ CallNearestNeighbors(p, ConcCenter, 1)
        \/ Write(p)
        \/ RLock(p)
        \/ \E i \in DOMAIN partitions[1] : Task(p, i)
        \/ QueryBoxReturn(p)
        \/ QueryRadiusReturn(p)
        \/ NearestNeighborsReturn(p)

SpecConc == ConcInit /\ [][ConcNext]_vars

(***************************************************************************)
(* The same calls with the channel of the results spelled out: a task      *)
(* sends, the query receives.  The Go scheduler runs every goroutine that  *)
(* can run, sync.Mutex hands the writer lock to a goroutine that keeps     *)
(* waiting for it, and RWMutex.Unlock admits the readers that wait.        *)
(***************************************************************************)
LiveBatches == {<<west>>}
LiveCenter == <<Deg(60), Deg(-1)>>
LiveBoxes ==
    { \* the western hemisphere: one task, which searches partition 0
      BoundingBox(<<Deg(-90), Deg(-180)>>, <<Deg(90), Deg(-1)>>),
      \* no rectangle can be made: the one task sends nil
      BoundingBox(<<Deg(60), Deg(-3)>>, <<Deg(60), Deg(-3)>>),
      \* inverted longitudes: no partition is relevant, no task is started
      BoundingBox(<<Deg(59), Deg(3)>>, <<Deg(63), Deg(-1)>>) }

\* the steps of goroutine p that wait for no lock
Run(p) ==
    \/ LockWait(p)
    \/ \E i \in DOMAIN partitions[1] : Insert(p, i)
    \/ IndexPointsReturn(p)
    \/ ClearPartition(p)
    \/ ClearReturn(p)
    \/ \E i \in DOMAIN partitions[1] : Send(p, i)
    \/ Receive(p)
    \/ QueryBoxReturn(p)
    \/ QueryRadiusReturn(p)
    \/ NearestNeighborsReturn(p)

LiveNext ==
    \E p \in Procs :
        \/ \E points \in LiveBatches : CallIndexPoints(p, points)
        \/ CallClear(p)
        \/ \E box \in LiveBoxes : CallQueryBox(p, box)
        \/ CallQueryRadius(p, LiveCenter, 20000)
        \/ CallNearestNeighbors(p, LiveCenter, 1)
        \/ Lock(p)
        \/ RLock(p)
        \/ Run(p)

\* Run(p) stays enabled until goroutine p takes it; Lock(p) and RLock(p)
\* are disabled while another goroutine has the writer lock
Fair == \A p \in Procs : SF_vars(Lock(p) \/ RLock(p) \/ Run(p))

SpecLive == ConcInit /\ [][LiveNext]_vars /\ Fair

(***************************************************************************)
(* IndexPoints and Clear on index 1, with Count called at any moment:      *)
(* Count takes no lock.                                                    *)
(***************************************************************************)
RaceBatches == {<<>>, <<nl>>, <<west>>, <<c60, west>>, <<c60, nl>>}

\* IndexPoints of one batch, Clear and the three queries
ShareNext ==
    \E p \in Procs :
        \/ \E points \in FileBatches : CallIndexPoints(p, points)
        \/ CallClear(p)
        \/ CallQueryBox(p, fullWorld)
        \/ CallQueryRadius(p, ConcCenter, 222390)
        \/ CallNearestNeighbors(p, ConcCenter, 1)
        \/ Write(p)
        \/ RLock(p)
        \/ \E i \in DOMAIN partitions[1] : Task(p, i)
        \/ QueryBoxReturn(p)
        \/ QueryRadiusReturn(p)
        \/ NearestNeighborsReturn(p)

SpecShare == ConcInit /\ [][ShareNext]_vars

RaceNext ==
    \/ \E p \in Procs :
          \/ \E points \in RaceBatches : CallIndexPoints(p, points)
          \/ CallClear(p)
          \/ Write(p)
    \/ Count({1})

SpecRace == ConcInit /\ [][RaceNext]_vars

\* the steps of a call of FileNext after the call
Proceed(p) ==
    \/ Write(p)
    \/ RLock(p)
    \/ RUnlock(p)
    \/ \E i \in DOMAIN partitions[1] : Task(p, i)
    \/ QueryBoxReturn(p)
    \/ Encode(p)

\* SaveToFile and LoadFromFile among IndexPoints, Clear and QueryBox
FileNext ==
    \E p \in Procs :
        \/ CallSaveToFile(p)
        \/ CallLoadFromFile(p)
        \/ \E points \in FileBatches : CallIndexPoints(p, points)
        \/ CallClear(p)
        \/ CallQueryBox(p, fullWorld)
        \/ Proceed(p)

SpecFile == ConcInit /\ [][FileNext]_vars

\* LoadFromFile among IndexPoints of one point and QueryBox; the file is
\* written by a SaveToFile that runs while no other call is in flight
SectionBatches == {<<west>>}

SectionNext ==
    \/ \E p \in Procs :
          \/ CallLoadFromFile(p)
          \/ \E points \in SectionBatches : CallIndexPoints(p, points)
          \/ CallQueryBox(p, fullWorld)
          \/ Write(p)
          \/ RLock(p)
          \/ \E i \in DOMAIN partitions[1] : Task(p, i)
          \/ QueryBoxReturn(p)
    \/ (\A p \in Procs : proc[p].pc = "idle") /\ SaveToFile(1)

SpecSections == ConcInit /\ [][SectionNext]_vars

(***************************************************************************)
(* What the queries are meant to return.                                   *)
(***************************************************************************)
InBox(loc, box) ==
    /\ Lat(box.BottomLeft) <= Lat(loc) /\ Lat(loc) <= Lat(box.TopRight)
    /\ Lon(box.BottomLeft) <= Lon(loc) /\ Lon(loc) <= Lon(box.TopRight)

Ordered(box) ==
    /\ Lat(box.BottomLeft) <= Lat(box.TopRight)
    /\ Lon(box.BottomLeft) <= Lon(box.TopRight)

GreatCircle(center, item) ==
    Distance(Lat(center), Lon(center), Lat(item.Location), Lon(item.Location))

\* the number of copies of x in a list
Copies(list, x) == Cardinality({k \in DOMAIN list : list[k] = x})

(***************************************************************************)
(* C1.  For every box whose corners are ordered (equality allowed), and    *)
(* every index state reached by IndexPoints and Clear, QueryBox returns,   *)
(* with no error, exactly the points held whose location lies within the   *)
(* closed bounds of the box.                                               *)
(***************************************************************************)
QueryBoxExact ==
    (ret[1].op = "QueryBox" /\ Ordered(ret[1].box)) =>
        /\ ~ret[1].err
        /\ ret[1].points =
              BagFilter(Held(1), LAMBDA item : InBox(item.Location, ret[1].box))

(***************************************************************************)
(* C2.  The partition count is not observable: two indexes built with      *)
(* different partition counts and handed the same IndexPoints and Clear    *)
(* calls return the same points (as multisets) from QueryBox and           *)
(* QueryRadius, and the same Count, for every query.                       *)
(***************************************************************************)
PartitionCountNotObservable ==
    (ret[1].op = ret[2].op /\ ret[1].op \in {"QueryBox", "QueryRadius", "Count"}) =>
        /\ ret[1].points = ret[2].points
        /\ ret[1].count = ret[2].count

(***************************************************************************)
(* C3.  QueryRadius returns exactly the points held whose great-circle     *)
(* distance from the center is at most the radius, for every center and    *)
(* every radius >= 0.                                                      *)
(***************************************************************************)
QueryRadiusExact ==
    ret[1].op = "QueryRadius" =>
        /\ ~ret[1].err
        /\ ret[1].points =
              BagFilter(Held(1),
                        LAMBDA item : GreatCircle(ret[1].center, item) <= ret[1].radius)

(***************************************************************************)
(* C4.  NearestNeighbors(c, n) returns min(n, Count()) points, in          *)
(* ascending order of great-circle distance from c, and a held point       *)
(* lying exactly at c comes first.                                         *)
(***************************************************************************)
NearestCountSortedFirst ==
    ret[1].op = "NearestNeighbors" =>
        LET list == ret[1].list
            c == ret[1].center
            expected == IF ret[1].n < itemCount[1] THEN ret[1].n ELSE itemCount[1]
        IN /\ Len(list) = expected
           /\ \A i, j \in DOMAIN list :
                 i < j => GreatCircle(c, list[i]) <= GreatCircle(c, list[j])
           /\ (\E x \in DOMAIN Held(1) : x.Location = c) =>
                 (list # <<>> /\ list[1].Location = c)

(***************************************************************************)
(* C5.  NearestNeighbors(c, k) returns the k closest points: no point      *)
(* returned is strictly farther from c than a held point left out.         *)
(***************************************************************************)
NearestAreClosest ==
    ret[1].op = "NearestNeighbors" =>
        \A q \in DOMAIN Held(1) :
            Copies(ret[1].list, q) < Held(1)[q] =>
                \A k \in DOMAIN ret[1].list :
                    GreatCircle(ret[1].center, ret[1].list[k])
                        <= GreatCircle(ret[1].center, q)

(***************************************************************************)
(* C6.  After IndexPoints(B) on an empty index, Count() is the number of   *)
(* elements of B that have a location, for every batch B, the empty batch  *)
(* and the batches of location-less points included.                       *)
(***************************************************************************)
CountOnEmptyIndex ==
    [][ret'[1].op = "IndexPoints" =>
          \A B \in Batches :
              (Held(1) = EmptyBag /\ IndexPoints({1}, B)) =>
                  itemCount'[1] = Len(Located(B))]_vars

\* a batch of two points, one of them without a location, went into an
\* empty index
CountOnEmptyIndexWitness ==
    /\ ret[1].op = "IndexPoints"
    /\ ret[1].n = 2
    /\ itemCount[1] = 1
    /\ BagCardinality(Held(1)) = 1

ClearEmpties ==
    /\ [](ret[1].op = "Clear" =>
            /\ \A i \in DOMAIN partitions[1] : partitions[1][i] = EmptyBag
            /\ itemCount[1] = 0
            /\ \A box \in Boxes : QueryBoxPoints(1, box) = EmptyBag
            /\ \A center \in Centers, radiusKm \in Radii :
                  QueryRadiusPoints(1, center, radiusKm) = EmptyBag
            /\ \A center \in Centers, n \in Ns :
                  NearestNeighborsLists(1, center, n) = {<<>>})
    /\ [][\/ \A i \in DOMAIN partitions[1] : partitions[1][i] \sqsubseteq partitions'[1][i]
          \/ \A i \in DOMAIN partitions[1] : partitions'[1][i] = EmptyBag]_vars

\* Clear has run
ClearEmptiesWitness ==
    /\ ret[1].op = "Clear"
    /\ Held(1) = EmptyBag
    /\ itemCount[1] = 0

\* the (id, lat, lon) tuples of a bag of located points
Tuples(B) ==
    LET tuple(p) == <<p.ID, Lat(p.Location), Lon(p.Location)>>
        ts == {tuple(p) : p \in DOMAIN B}
    IN [t \in ts |-> SumOver(B, {p \in DOMAIN B : tuple(p) = t})]

(***************************************************************************)
(* C10.  Save/Load round trip: when index 2 loads the file that index 1    *)
(* has just saved, QueryBox on index 2 returns the same collection of      *)
(* (id, lat, lon) tuples as QueryBox on index 1, for the full-world box    *)
(* and for every other box.                                                *)
(***************************************************************************)
RoundTrip ==
    [][(ret[1].op = "SaveToFile" /\ ret'[2].op = "LoadFromFile" /\ LoadFromFile(2)) =>
          /\ ~ret'[2].err
          /\ \A box \in SavedBoxes :
                Tuples(QueryBoxResult(partitionBounds'[2], partitions'[2], box)) =
                    Tuples(QueryBoxPoints(1, box))]_vars

(***************************************************************************)
(* C11.  An index that loads the file another index has just saved         *)
(* reports the same Count() as the index that was saved, for every state   *)
(* of the saved index reached by IndexPoints and Clear.                    *)
(***************************************************************************)
RoundTripCount ==
    [][(ret[1].op = "SaveToFile" /\ ret'[2].op = "LoadFromFile" /\ LoadFromFile(2)) =>
          /\ ~ret'[2].err
          /\ itemCount'[2] = itemCount[1]]_vars

\* the parameters NewRect refuses: a box without positive extent on both
\* axes, a radius without a positive extent in degrees
Degenerate(box) ==
    \/ Minus(Lat(box.TopRight), Lat(box.BottomLeft)) <= 0
    \/ Minus(Lon(box.TopRight), Lon(box.BottomLeft)) <= 0

NoExtent(radiusKm) == 2 * RadiusToDeg(radiusKm) <= 0

(***************************************************************************)
(* C15.  A QueryBox call with a degenerate box (zero or negative extent    *)
(* on an axis) and a QueryRadius call with a radius of zero or below       *)
(* return a non-nil error to the caller.                                   *)
(***************************************************************************)
ConstructionErrorReturned ==
    /\ (ret[1].op = "QueryBox" /\ Degenerate(ret[1].box)) => ret[1].err
    /\ (ret[1].op = "QueryRadius" /\ NoExtent(ret[1].radius)) => ret[1].err

LoadReplaces ==
    [][(/\ ret'[2].op = "LoadFromFile" /\ ~ret'[2].err
        /\ file' = file /\ partitions'[1] = partitions[1]
        /\ LoadFromFile(2)) =>
          LET data == DecodeIndexData(file.data)
          IN /\ BagSum(partitions'[2], DOMAIN partitions'[2]) =
                    SeqToBag(Located(data.Points))
             /\ itemCount'[2] = Len(Located(data.Points))]_vars

\* index 2 has loaded a file whose points are not those it held after an
\* earlier load and whose count field is not the number of its points
LoadReplacesWitness ==
    /\ ret[2].op = "LoadFromFile"
    /\ ~ret[2].err
    /\ Held(2) # EmptyBag
    /\ Held(2) = SeqToBag(DecodeIndexData(file.data).Points)
    /\ itemCount[2] = BagCardinality(Held(2))
    /\ DecodeIndexData(file.data).Count # itemCount[2]

(***************************************************************************)
(* C19.  For every partition count the bands are contiguous (the lonMax    *)
(* of band i is the lonMin of band i+1), do not overlap, start at -180     *)
(* and end at +180, so that every longitude in [-180, 180] belongs to      *)
(* exactly one band (a boundary to the band east of it, +180 to the last   *)
(* band); in every reachable state.                                        *)
(***************************************************************************)
InBand(b, i, lon) ==
    /\ Lon(b[i].BottomLeft) <= lon
    /\ \/ lon < Lon(b[i].TopRight)
       \/ i = Cardinality(DOMAIN b) - 1 /\ lon = Lon(b[i].TopRight)

BandsTile ==
    LET b == partitionBounds[1]
        n == Cardinality(DOMAIN b)
        lons == {Deg(-180), Deg(-170), tiny, 0, Deg(10), Deg(180)}
                  \cup {Lon(b[i].BottomLeft) : i \in DOMAIN b}
                  \cup {Lon(b[i].TopRight) : i \in DOMAIN b}
    IN /\ n = numCPU[1]
       /\ Lon(b[0].BottomLeft) = Deg(-180)
       /\ Lon(b[n - 1].TopRight) = Deg(180)
       /\ \A i \in 0..(n - 2) : Lon(b[i].TopRight) = Lon(b[i + 1].BottomLeft)
       /\ \A i \in 0..(n - 1) : Lon(b[i].BottomLeft) < Lon(b[i].TopRight)
       /\ \A lon \in lons : Cardinality({i \in DOMAIN b : InBand(b, i, lon)}) = 1

(***************************************************************************)
(* C20.  IndexPoints places a point of longitude lon in partition          *)
(* clamp(floor((lon + 180) / (360/P)), 0, P-1), and the band of that       *)
(* partition contains lon; with 4 partitions, longitude -170 goes to       *)
(* partition 0, longitude 10 to partition 2 and longitude 180 to           *)
(* partition 3.                                                            *)
(***************************************************************************)
\* floor((lon + 180) / (360/P)) in exact arithmetic, clamped
FloorIdx(n, lon) ==
    LET idx == ((lon + Deg(180)) * n) \div Deg(360)
    IN IF idx >= n THEN n - 1 ELSE IF idx < 0 THEN 0 ELSE idx

PlacedInOwnBand ==
    \A i \in DOMAIN partitions[1] : \A item \in BagToSet(partitions[1][i]) :
        LET lon == Lon(item.Location)
            band == partitionBounds[1][i]
        IN /\ i = FloorIdx(numCPU[1], lon)
           /\ Lon(band.BottomLeft) <= lon /\ lon <= Lon(band.TopRight)
           /\ numCPU[1] = 4 =>
                /\ lon = Deg(-170) => i = 0
                /\ lon = Deg(10) => i = 2
                /\ lon = Deg(180) => i = 3

(***************************************************************************)
(* What the goroutines are meant to see.                                   *)
(***************************************************************************)
\* the goroutines that hold the write lock: IndexPoints between Lock and
\* its return, Clear between Lock and its return
Writing == {p \in Procs : proc[p].pc = "Locked"}

\* the goroutines whose query has tasks reading the partitions
Reading == {p \in Procs : proc[p].pc = "Tasks"}

\* a query of goroutine p returns in this step
Returns(p) == proc[p].pc = "Tasks" /\ proc[p].op = proc[p].fn /\ proc'[p].pc = "idle"

\* what the query of goroutine p returns when it runs alone on these trees
Alone(p, trees) ==
    CASE proc[p].fn = "QueryBox" ->
           {[RetOf("QueryBox") EXCEPT
               !.box = proc[p].box,
               !.points = QueryBoxResult(partitionBounds[1], trees, proc[p].box)]}
      [] proc[p].fn = "QueryRadius" ->
           {[RetOf("QueryRadius") EXCEPT
               !.center = proc[p].center, !.radius = proc[p].radius,
               !.points = QueryRadiusResult(partitionBounds[1], trees,
                                            proc[p].center, proc[p].radius)]}
      [] proc[p].fn = "NearestNeighbors" ->
           {[RetOf("NearestNeighbors") EXCEPT
               !.center = proc[p].center, !.n = proc[p].n, !.list = list] :
              list \in NearestNeighborsResult(trees, proc[p].center, proc[p].n)}

(***************************************************************************)
(* C12.  Writer exclusion: in every reachable state at most one            *)
(* IndexPoints or Clear call is mutating the partitions, and while it      *)
(* does, no task of a QueryBox, QueryRadius or NearestNeighbors call is    *)
(* reading a partition.                                                    *)
(***************************************************************************)
WriterExclusion ==
    /\ Cardinality(Writing) <= 1
    /\ Writing # {} => Reading = {}

\* IndexPoints has inserted a part of its batch while a query waits in
\* RLock
WriterExclusionWitness ==
    \E p \in Writing, q \in Procs :
        /\ proc[p].fn = "IndexPoints"
        /\ proc[p].todo # {}
        /\ Held(1) # EmptyBag
        /\ proc[q].pc = "RLock"

(***************************************************************************)
(* C13.  No query observes a partially inserted batch: however a           *)
(* QueryBox, QueryRadius or NearestNeighbors call interleaves with an      *)
(* IndexPoints call, what the query returns is what it returns on the      *)
(* points held before any point of the batch was inserted or on the        *)
(* points held after all of them were.                                     *)
(***************************************************************************)
\* the items of partition i that the IndexPoints call of q has inserted
Inserted(q, i) ==
    SeqToBag(Partitioned(numCPU[1], proc[q].points)[i]) (-) SeqToBag(proc[q].left[i])

\* the trees at the two ends of the batches being inserted; the trees as
\* they are when no batch is being inserted
BatchEnds ==
    LET W == {q \in Writing : proc[q].fn = "IndexPoints"}
    IN IF W = {} THEN {partitions[1]}
       ELSE UNION {{[i \in DOMAIN partitions[1] |-> partitions[1][i] (-) Inserted(q, i)],
                    [i \in DOMAIN partitions[1] |->
                        partitions[1][i] (+) SeqToBag(proc[q].left[i])]} : q \in W}

NoPartialBatch ==
    [][\A p \in Procs :
          Returns(p) => \E trees \in BatchEnds : ret'[1] \in Alone(p, trees)]_vars

\* a query has returned points while an IndexPoints call waits in Lock for
\* the readers to leave
NoPartialBatchWitness ==
    /\ ret[1].op \in {"QueryBox", "QueryRadius", "NearestNeighbors"}
    /\ ret[1].points # EmptyBag \/ ret[1].list # <<>>
    /\ \E q \in Procs : proc[q].fn = "IndexPoints" /\ proc[q].pc = "LockWait"

(***************************************************************************)
(* C14.  Queries are read-only: while no IndexPoints or Clear call is in   *)
(* flight, every step of a QueryBox, QueryRadius or NearestNeighbors call, *)
(* run concurrently with other queries, leaves the count and every         *)
(* partition unchanged, and each call returns what it returns when run     *)
(* alone on the points held.                                               *)
(***************************************************************************)
QueriesReadOnly ==
    [][\A p \in Procs :
          (/\ proc[p].pc \in {"RLock", "Tasks"}
           /\ proc'[p] # proc[p]
           /\ \A q \in Procs : proc[q].fn \notin {"IndexPoints", "Clear"}) =>
             /\ itemCount' = itemCount
             /\ partitions' = partitions
             /\ Returns(p) => ret'[1] \in Alone(p, partitions[1])]_vars

\* two queries have tasks running at the same time on an index that holds
\* points, with no IndexPoints or Clear call in flight
QueriesReadOnlyWitness ==
    /\ Cardinality(Reading) >= 2
    /\ \A q \in Procs : proc[q].fn \notin {"IndexPoints", "Clear"}
    /\ \E p \in Reading : proc[p].seen # <<>> /\ proc[p].todo # {}
    /\ itemCount[1] > 0
    /\ \A i \in DOMAIN partitions[1] : partitions[1][i] # EmptyBag

(***************************************************************************)
(* C18.  SaveToFile holds no lock of the index when it calls QueryBox,     *)
(* and no goroutine asks for the lock while it holds it; hence, with a     *)
(* read-write lock that makes new readers wait for a waiting writer, no    *)
(* interleaving of SaveToFile, LoadFromFile, IndexPoints, Clear and        *)
(* QueryBox reaches a state where every call in flight waits for the       *)
(* lock, a writer that queues up between the start of SaveToFile and its   *)
(* QueryBox included.                                                      *)
(***************************************************************************)
InFlightCalls == {p \in Procs : proc[p].pc # "idle"}

\* goroutine p is in Lock or RLock and cannot leave it
Waits(p) ==
    /\ proc[p].pc \in {"RLock", "Lock", "LockWait"}
    /\ ~ENABLED (Lock(p) \/ LockWait(p) \/ RLock(p))

NoDeadlock ==
    /\ \A p \in Procs :
          proc[p].pc \in {"RLock", "Lock", "LockWait"} =>
              /\ ~BagIn(p, mu.r)
              /\ ~(mu.w = p /\ mu.held)
    /\ InFlightCalls # {} => \E p \in InFlightCalls : ~Waits(p)

\* SaveToFile has released its read lock and is about to call RLock in
\* QueryBox, while a writer that announced itself since waits in Lock
NoDeadlockWitness ==
    \E p \in Procs, q \in Procs :
        /\ proc[p].op = "SaveToFile" /\ proc[p].fn = "QueryBox" /\ proc[p].pc = "RLock"
        /\ proc[q].pc = "LockWait" /\ mu.w = q
        /\ Waits(p)

(***************************************************************************)
(* C21.  The number of partitions and the longitude band of every          *)
(* partition are fixed at construction: no IndexPoints, Clear, query,      *)
(* SaveToFile or LoadFromFile changes them, Clear keeps the number of      *)
(* slots, and an index asked for with zero partitions or fewer has one     *)
(* partition per CPU of the host.                                          *)
(***************************************************************************)
PartitionsFixed ==
    /\ [](\A g \in Indexes :
            /\ numCPU[g] >= 1
            /\ DOMAIN partitions[g] = 0..(numCPU[g] - 1)
            /\ partitionBounds[g] = NewPartitionBounds(numCPU[g]))
    /\ [](\A r \in Requested :
            (r <= 0 /\ numCPU[1] = Workers(r)) => numCPU[1] = NumCPU)
    /\ [][/\ numCPU' = numCPU
          /\ partitionBounds' = partitionBounds
          /\ DOMAIN partitions'[1] = DOMAIN partitions[1]]_vars

\* an index whose partitions are not one per CPU has been cleared by
\* LoadFromFile and holds the points of the file
PartitionsFixedWitness ==
    /\ numCPU[1] # NumCPU
    /\ ret[1].op = "LoadFromFile" /\ ~ret[1].err
    /\ Held(1) # EmptyBag

(***************************************************************************)
(* C22.  Routing soundness: for every box and every point held whose       *)
(* location lies within the closed bounds of the box, the partition that   *)
(* IndexPoints placed the point in is among those getRelevantPartitions    *)
(* returns for the box; points on a band boundary and at longitude 180     *)
(* included.                                                               *)
(***************************************************************************)
RoutingSound ==
    \A box \in SavedBoxes : \A i \in DOMAIN partitions[1] :
        \A item \in BagToSet(partitions[1][i]) :
            InBox(item.Location, box) =>
                i \in getRelevantPartitions(partitionBounds[1], box)

(***************************************************************************)
(* C23.  A partition is routed for a box exactly when its longitude band   *)
(* overlaps the closed longitude span of the box, and the latitudes of     *)
(* the box never influence routing.  Two intervals overlap when one of     *)
(* their end points lies in both.                                          *)
(***************************************************************************)
\* the closed span [c, d] meets the band from a to b, closed at b or not
Overlaps(a, b, closed, c, d) ==
    \E x \in {a, b, c, d} :
        /\ a <= x /\ (x < b \/ (closed /\ x = b))
        /\ c <= x /\ x <= d

\* the boxes with the longitudes of this box and other latitudes
OtherLatitudes(box) ==
    {BoundingBox(<<lat1, Lon(box.BottomLeft)>>, <<lat2, Lon(box.TopRight)>>) :
        lat1 \in {Deg(-90), Deg(62)}, lat2 \in {Deg(-90), Deg(90)}}

LatitudeFree ==
    \A box \in Boxes : \A other \in OtherLatitudes(box) :
        getRelevantPartitions(partitionBounds[1], other) =
            getRelevantPartitions(partitionBounds[1], box)

\* as claimed: the band is half open, [lonMin, lonMax), that of the last
\* partition being closed at +180
RoutedHalfOpen ==
    /\ LatitudeFree
    /\ \A box \in Boxes :
          getRelevantPartitions(partitionBounds[1], box) =
              {i \in DOMAIN partitionBounds[1] :
                  Overlaps(Lon(partitionBounds[1][i].BottomLeft),
                           Lon(partitionBounds[1][i].TopRight),
                           i = numCPU[1] - 1,
                           Lon(box.BottomLeft), Lon(box.TopRight))}

\* as the code routes a box whose longitudes are ordered: the band is
\* closed, [lonMin, lonMax]
RoutedClosed ==
    /\ LatitudeFree
    /\ \A box \in {b \in Boxes : Lon(b.BottomLeft) <= Lon(b.TopRight)} :
          getRelevantPartitions(partitionBounds[1], box) =
              {i \in DOMAIN partitionBounds[1] :
                  Overlaps(Lon(partitionBounds[1][i].BottomLeft),
                           Lon(partitionBounds[1][i].TopRight),
                           TRUE,
                           Lon(box.BottomLeft), Lon(box.TopRight))}

\* QueryBox has returned for a box whose left edge is the lonMax of a
\* band that is not the last, and that band was routed
RoutedClosedWitness ==
    /\ ret[1].op = "QueryBox"
    /\ \E i \in DOMAIN partitionBounds[1] :
          /\ i < numCPU[1] - 1
          /\ Lon(ret[1].box.BottomLeft) = Lon(partitionBounds[1][i].TopRight)
          /\ Lon(ret[1].box.BottomLeft) < Lon(ret[1].box.TopRight)
          /\ i \in getRelevantPartitions(partitionBounds[1], ret[1].box)
          /\ partitions[1][i] # EmptyBag

(***************************************************************************)
(* C24.  NearestNeighbors(c, n) runs one task for every partition,         *)
(* whatever c is; each task asks its partition for 2n candidates and the   *)
(* result is built from the candidates of all the tasks: the list has as   *)
(* many points as n allows out of the min(2n, size) candidates of every    *)
(* partition together, and when no partition holds more than 2n points no  *)
(* point returned is farther from c than a held point left out.            *)
(***************************************************************************)
NearestFromEveryPartition ==
    ret[1].op = "NearestNeighbors" =>
        LET n == ret[1].n
            list == ret[1].list
            trees == partitions[1]
            asked == [i \in DOMAIN trees |->
                        IF BagCardinality(trees[i]) < n * 2
                        THEN BagCardinality(trees[i]) ELSE n * 2]
            candidates == SumOver(asked, DOMAIN trees)
        IN /\ DOMAIN trees = 0..(numCPU[1] - 1)
           /\ Len(list) = IF candidates < n THEN candidates ELSE n
           /\ \A k \in DOMAIN list : Copies(list, list[k]) <= Held(1)[list[k]]
           /\ (\A i \in DOMAIN trees : BagCardinality(trees[i]) <= n * 2) =>
                 \A q \in DOMAIN Held(1) :
                     Copies(list, q) < Held(1)[q] =>
                         \A k \in DOMAIN list :
                             GreatCircle(ret[1].center, list[k])
                                 <= GreatCircle(ret[1].center, q)

\* four partitions, a center in the first of them, and the two points
\* returned come from the third and from the fourth
NearestFromEveryPartitionWitness ==
    /\ ret[1].op = "NearestNeighbors"
    /\ numCPU[1] = 4
    /\ ret[1].center = <<Deg(0), Centi(-17990)>>
    /\ partitions[1][0] = EmptyBag
    /\ Range(ret[1].list) = {c60, dl}

(***************************************************************************)
(* C25.  For n >= 1, NearestNeighbors(c, n) returns min(n, H) points and   *)
(* no error, H being the number of points held across the partitions,      *)
(* whatever Count() says; when H < n it returns every held point.          *)
(***************************************************************************)
NearestLength ==
    (ret[1].op = "NearestNeighbors" /\ ret[1].n >= 1) =>
        LET H == BagCardinality(Held(1))
        IN /\ ~ret[1].err
           /\ Len(ret[1].list) = IF ret[1].n < H THEN ret[1].n ELSE H
           /\ H < ret[1].n => SeqToBag(ret[1].list) = Held(1)

\* two points asked of an index that holds one point and counts none
NearestLengthWitness ==
    /\ ret[1].op = "NearestNeighbors"
    /\ ret[1].n = 2
    /\ BagCardinality(Held(1)) = 1
    /\ itemCount[1] = 0
    /\ Len(ret[1].list) = 1

(***************************************************************************)
(* C26.  Fan-in barrier: an IndexPoints or query call returns, and gives   *)
(* up the lock, only when every partition task it started has finished     *)
(* with its partition; a task accesses a partition only while its call is  *)
(* in flight and holds the lock, in every interleaving.                    *)
(***************************************************************************)
\* goroutine p holds the lock m, for reading or for writing
HoldsLock(m, p) == BagIn(p, m.r) \/ (m.w = p /\ m.held)

\* the call of goroutine p has started its partition tasks
Spawned(p) ==
    /\ proc[p].pc \in {"Tasks", "Locked"}
    /\ proc[p].fn \in {"IndexPoints", "QueryBox", "QueryRadius", "NearestNeighbors"}

FanInBarrier ==
    /\ [](\A p \in Procs : (Spawned(p) /\ proc[p].todo # {}) => HoldsLock(mu, p))
    /\ [][\A p \in Procs :
            /\ (/\ Spawned(p)
                /\ \/ proc'[p].pc \notin {"Tasks", "Locked"}
                   \/ HoldsLock(mu, p) /\ ~HoldsLock(mu', p)) =>
                  proc[p].todo = {}
            /\ (\/ proc'[p].seen # <<>> /\ proc'[p].seen # proc[p].seen
                \/ /\ partitions' # partitions /\ proc'[p] # proc[p]
                   /\ proc[p].fn = "IndexPoints") =>
                  /\ Spawned(p) /\ HoldsLock(mu, p)
                  /\ proc'[p].pc = proc[p].pc /\ HoldsLock(mu', p)]_vars

\* one of the two tasks of a QueryBox call has delivered, the other has
\* not, and an IndexPoints call waits for the readers to leave
FanInBarrierWitness ==
    \E p, q \in Procs :
        /\ proc[p].pc = "Tasks" /\ proc[p].fn = "QueryBox"
        /\ proc[p].todo # {} /\ proc[p].seen # <<>>
        /\ proc[q].pc = "LockWait" /\ proc[q].fn = "IndexPoints"

(***************************************************************************)
(* C27.  Under fair scheduling every IndexPoints, Clear, QueryBox,         *)
(* QueryRadius and NearestNeighbors call that has started returns, and a   *)
(* goroutine that is in no call holds no lock.  Every task of a query      *)
(* sends one result, also when it fails; the channel always has room for   *)
(* a task that is about to send; and a query returns having received as    *)
(* many results as it started tasks, none when it started none.            *)
(***************************************************************************)
EveryCallReturns ==
    /\ [](\A p \in Procs :
            /\ proc[p].pc = "idle" => ~HoldsLock(mu, p)
            /\ proc[p].pc = "Tasks" =>
                  /\ Cardinality(proc[p].todo) + Cardinality(proc[p].chan)
                        + proc[p].got = Cardinality(Relevant(p))
                  /\ proc[p].todo # {} => Cardinality(proc[p].chan) < proc[p].cap)
    /\ [][\A p \in Procs :
            Returns(p) => /\ proc[p].got = Cardinality(Relevant(p))
                          /\ proc[p].chan = {} /\ proc[p].todo = {}]_vars
    /\ \A p \in Procs : (proc[p].pc # "idle") ~> (proc[p].pc = "idle")

\* the task of a QueryBox call has failed and its nil waits on the
\* channel, while an IndexPoints call waits for the reader to leave
EveryCallReturnsWitness ==
    \E p, q \in Procs :
        /\ proc[p].pc = "Tasks" /\ proc[p].fn = "QueryBox"
        /\ QueryBoxTask(EmptyBag, proc[p].box).nil
        /\ proc[p].got = 0 /\ proc[p].chan # {}
        /\ proc[q].pc = "LockWait" /\ proc[q].fn = "IndexPoints"

(***************************************************************************)
(* C28.  IndexPoints starts one insertion task for every partition whose   *)
(* bucket is not empty and none for an empty bucket; a task inserts only   *)
(* into its own partition, so at most one task is mutating a given         *)
(* partition in every reachable state, and every change of a partition     *)
(* tree happens while the goroutine that makes it holds the write lock.    *)
(***************************************************************************)
\* the insertion tasks that have items left to insert, as pairs of a
\* goroutine and a partition
Inserting ==
    {t \in Procs \X DOMAIN partitions[1] :
        /\ proc[t[1]].pc = "Locked" /\ proc[t[1]].fn = "IndexPoints"
        /\ t[2] \in proc[t[1]].todo}

OneTaskPerBucket ==
    /\ [](\A t, u \in Inserting : t[2] = u[2] => t = u)
    /\ [][\A p \in Procs :
            /\ (proc[p].fn = "IndexPoints" /\ proc[p].pc = "LockWait"
                /\ proc'[p].pc = "Locked") =>
                  proc'[p].todo =
                      {i \in DOMAIN partitions[1] :
                          Bucket(numCPU[1], proc[p].points, i) # EmptyBag}
            /\ (partitions' # partitions /\ proc'[p] # proc[p]) =>
                  /\ mu.w = p /\ mu.held
                  /\ proc[p].fn = "IndexPoints" =>
                        \E i \in proc[p].todo :
                            /\ \A j \in DOMAIN partitions[1] \ {i} :
                                  partitions'[1][j] = partitions[1][j]
                            /\ \E pt \in DOMAIN Bucket(numCPU[1], proc[p].points, i) :
                                  partitions'[1][i] = partitions[1][i] (+) SetToBag({pt})]_vars

\* of the two tasks of an IndexPoints call, the task of partition 0 has
\* inserted its point and the task of partition 1 has not
OneTaskPerBucketWitness ==
    \E p \in Procs :
        /\ proc[p].pc = "Locked" /\ proc[p].fn = "IndexPoints"
        /\ Len(proc[p].points) = 2
        /\ proc[p].todo = {1}
        /\ BagIn(west, partitions[1][0])

HeldIn(trees) == BagSum(trees, DOMAIN trees)

InsertConserves ==
    /\ [](/\ \A x \in DOMAIN Held(1) : x.Location # Nil
          /\ \A x \in DOMAIN ret[1].points : x.Location # Nil
          /\ \A k \in DOMAIN ret[1].list : ret[1].list[k].Location # Nil)
    /\ [][ret'[1].op = "IndexPoints" =>
            \A B \in FrameBatches :
                IndexPoints({1}, B) =>
                    /\ HeldIn(partitions'[1]) =
                          HeldIn(partitions[1]) (+) SeqToBag(Located(B))
                    /\ BagCardinality(HeldIn(partitions'[1])) =
                          BagCardinality(HeldIn(partitions[1])) + Len(Located(B))
                    /\ \A k \in DOMAIN Located(B) :
                          Cardinality({i \in DOMAIN partitions[1] :
                              CopiesIn(Located(B)[k], partitions'[1][i])
                                  > CopiesIn(Located(B)[k], partitions[1][i])}) = 1]_vars

\* a batch of a point on a band boundary and a point without a location
\* went into an index of two partitions that held a point
InsertConservesWitness ==
    /\ ret[1].op = "IndexPoints" /\ ret[1].n = 2
    /\ numCPU[1] = 2
    /\ Held(1) = SetToBag({c60, west})
    /\ itemCount[1] = 1

(***************************************************************************)
(* C31.  A LoadFromFile call that cannot open the file or cannot decode    *)
(* it returns an error and leaves the index it was called on as it was:    *)
(* the partitions and the count unchanged, no Clear done.  A SaveToFile    *)
(* call that cannot create the file or cannot encode returns an error and  *)
(* leaves the index unchanged.                                             *)
(***************************************************************************)
FailureLeavesIndex ==
    [][\A g \in Indexes :
          /\ (/\ ret'[g].op = "LoadFromFile"
              /\ ~file.exists \/ file.data = Undecodable
              /\ LoadFromFile(g)) =>
                /\ ret'[g].err
                /\ partitions' = partitions /\ itemCount' = itemCount
          /\ (/\ ret'[g].op = "SaveToFile"
              /\ file.fault # "none"
              /\ SaveToFile(g)) =>
                /\ ret'[g].err
                /\ partitions' = partitions /\ itemCount' = itemCount]_vars

\* an index that holds a point has failed to load the file that a failed
\* Encode has left behind
FailureLeavesIndexWitness ==
    /\ ret[1].op = "LoadFromFile" /\ ret[1].err
    /\ file.exists /\ file.data = Undecodable
    /\ Held(1) # EmptyBag /\ itemCount[1] # 0

SnapshotConsistent ==
    (file.exists /\ file.data # Undecodable) =>
        DecodeIndexData(file.data).Count = Len(DecodeIndexData(file.data).Points)


(***************************************************************************)
(* C34.  LoadFromFile is two critical sections, Clear and then             *)
(* IndexPoints, with the lock free in between.  A query that runs          *)
(* concurrently with it returns what it returns when run alone on the      *)
(* points held while LoadFromFile has cleared no partition yet, or has     *)
(* cleared all and inserted no point yet, or has inserted all its points:  *)
(* never on part of the loaded set.  A writer that runs between the two    *)
(* sections can leave the index with points that are not in the file.      *)
(***************************************************************************)
\* goroutine q is at one of the two ends of a section of LoadFromFile
AtSectionEnd(q) ==
    /\ proc[q].fn = "Clear" => proc[q].todo = DOMAIN partitions[1]
    /\ proc[q].fn = "IndexPoints" =>
          \A i \in DOMAIN partitions[1] : Inserted(q, i) = EmptyBag

TwoSections ==
    /\ [][\A q \in Procs :
            (/\ proc[q].op = "LoadFromFile" /\ proc[q].fn = "Clear"
             /\ proc'[q].fn = "IndexPoints") =>
               /\ HoldsLock(mu, q) /\ ~HoldsLock(mu', q)
               /\ mu'.w = 0
               /\ proc'[q].pc = "Lock"
               /\ Held(1) = EmptyBag /\ partitions' = partitions
               /\ itemCount'[1] = 0]_vars
    /\ [][\A p \in Procs :
            Returns(p) =>
               /\ ret'[1] \in Alone(p, partitions[1])
               /\ \A q \in Procs : proc[q].op = "LoadFromFile" => AtSectionEnd(q)]_vars

\* LoadFromFile has returned, and the index holds the point of the file and
\* a point that another IndexPoints call inserted between the two sections
TwoSectionsWitness ==
    /\ ret[1].op = "LoadFromFile" /\ ~ret[1].err
    /\ \A p \in Procs : proc[p].pc = "idle"
    /\ file.exists /\ file.data # Undecodable
    /\ LET loaded == SeqToBag(Located(DecodeIndexData(file.data).Points))
       IN /\ loaded # EmptyBag
          /\ loaded \sqsubseteq Held(1)
          /\ Held(1) # loaded
          /\ itemCount[1] = BagCardinality(loaded)


(***************************************************************************)
(* C35.  Readers do not exclude each other: while no IndexPoints or Clear  *)
(* call runs or waits for the lock, a QueryBox, QueryRadius or             *)
(* NearestNeighbors call gets the shared lock however many other queries   *)
(* hold it, and the queries that hold it keep it and go on with their own  *)
(* tasks; two queries hold the lock at once, each with tasks in flight.    *)
(***************************************************************************)
ReadersShare ==
    /\ [](\A p \in Procs :
             (proc[p].pc = "RLock" /\ mu.w = 0) => ENABLED RLock(p))
    /\ [][\A p \in Procs :
             RLock(p) =>
                /\ HoldsLock(mu', p)
                /\ \A q \in Reading :
                      /\ HoldsLock(mu, q) /\ HoldsLock(mu', q)
                      /\ proc'[q] = proc[q]
                      /\ \A i \in proc[q].todo : proc'[q].pc = "Tasks"]_vars

\* two queries of different kinds hold the shared lock, each with tasks
\* still to run, and no IndexPoints or Clear call runs or waits
ReadersShareWitness ==
    \E p, q \in Reading :
        /\ proc[p].fn = "QueryBox" /\ proc[q].fn = "NearestNeighbors"
        /\ BagIn(p, mu.r) /\ BagIn(q, mu.r)
        /\ proc[p].todo # {} /\ proc[q].todo # {}
        /\ proc[p].got < proc[p].cap /\ proc[q].got < proc[q].cap
        /\ mu.w = 0
        /\ \A w \in Procs : proc[w].fn \notin {"IndexPoints", "Clear"}

====
